---------------------------- MODULE Spec2Model ----------------------------
(***************************************************************************)
(* Model of the Fireblocks XRP SDK core:                                   *)
(*   - SdkManager (src/src/pool/SdkManager.ts): the per-vault SDK pool     *)
(*   - SigningService (src/src/services/SigningService.ts): the two-phase  *)
(*     sign / getSignedTransaction protocol and the waitForSignature loop  *)
(*                                                                         *)
(* JavaScript runs one task at a time and a task gives up control only at  *)
(* an `await`.  Each action below is therefore one synchronous segment of  *)
(* a method: from its call (or from the resumption of an await) up to the  *)
(* next await, return or throw.                                            *)
(***************************************************************************)
EXTENDS Integers, Sequences, FiniteSets, TLC

(***************************************************************************)
(* Bounds of the model and configuration                                   *)
(***************************************************************************)
\* poolConfig.maxPoolSize as configured by the pool tests
maxPoolSize == 2
\* poolConfig.idleTimeoutMs, in clock ticks
idleTimeoutMs == 1
\* the clock (Date.now()) runs from 0 to MaxTime with concurrent callers,
\* and from 0 to MaxCleanupTime with the periodic cleanup
MaxTime == 1
MaxCleanupTime == 2
\* at most MaxSdks FireblocksXrpSdk instances are ever constructed
MaxSdks == 3

\* sign() is called at most MaxPrepared times
MaxPrepared == 2
\* the custody service answers at most MaxFetches status fetches
MaxFetches == 3
\* the arguments of toDER have at most MaxHexLen characters
MaxHexLen == 6
\* largest maxRetries passed to getNetworkParams
MaxRetries == 3

Vaults == {"v1", "v2", "v3"}
Tasks == {"t1", "t2"}

NoKey == "none"
\* a FireblocksXrpSdk object: its identity and the vault account it is bound to
Sdk(n, v) == [id |-> n, vaultAccountId |-> v]
NoSdk == Sdk(0, NoKey)
\* outcome of a getSdk call: the vault asked for, the sdk returned or the error
\* thrown, and the branch of getSdk that ended the call
Outcome(v, h, e, b) == [vault |-> v, sdk |-> h, err |-> e, how |-> b]
NoOutcome == Outcome(NoKey, NoSdk, "", "")
\* message of the error thrown by getSdk when nothing can be evicted
CapacityError == "SDK pool is at maximum capacity"

VARIABLES
  sdkPool,      \* SdkManager.sdkPool: sequence of items in Map insertion order
  nextSdk,      \* number of FireblocksXrpSdk objects constructed so far
  now,          \* the clock read by new Date()
  pc,           \* pc[t]: where the getSdk call of task t is suspended
  vault,        \* vault[t]: argument vaultAccountId of the call
  item,         \* item[t]: sdk of the pool item the call holds a reference to
  oldestKey,    \* oldestKey[t]: key chosen by removeOldestIdleSdk
  last,         \* outcome of the getSdk call ended by the latest step, if any,
                \* or the releaseSdk call the latest step was
  cleanPc,      \* position of the cleanupIdleSdks run
  cleanKeys,    \* keysToRemove still to be processed (head = current key)
  cleanSdk,     \* sdk being shut down by cleanupIdleSdks
  cleanNow      \* the `now` read by the cleanupIdleSdks run (line 175)

VARIABLES
  cleanupInterval, \* the interval timer of cleanupIdleSdks is armed
  shutPc,       \* position of the shutdown() call
  shutSeen,     \* keys of the entries the iterator of shutdown() has passed
  shutDowns,    \* ids of the sdks whose shutDown() was called by shutdown()
  interleaved,  \* another pool operation ran while shutdown() was in progress
  metrics,      \* result of the latest getMetrics() call
  exec,         \* exec[t]: the executeTransaction call of task t
  removed,      \* removed[t]: `removed` of line 64: the getSdk call of task t
                \* has evicted an entry
  tornDown,     \* ids of the sdks whose shutDown() the pool has called
  suspended     \* tasks whose getSdk call was suspended when shutdown()
                \* returned and has not ended since

poolVars == <<sdkPool, nextSdk, now, pc, vault, item, oldestKey, last,
              cleanPc, cleanKeys, cleanSdk, cleanNow,
              cleanupInterval, shutPc, shutSeen, shutDowns, interleaved,
              metrics, exec, removed, tornDown, suspended>>

VARIABLES
  preparedTransactions, \* SigningService.preparedTransactions: txId -> entry
  nextTxId,     \* number of identifiers generated by sign() so far
  spc,          \* spc[c]: where the getSignedTransaction call c is suspended
  ph,           \* ph[c]: the placeholder the call was given
  hist,         \* hist[c]: statuses returned to the call's status fetches
  outcome,      \* outcome[c]: "Signed" or the code of the error thrown
  consumed,     \* consumed[i]: calls that passed the lookup of identifier i
  requests,     \* requests[i]: raw-signing requests created for identifier i
  signed,       \* the sign() call made in the latest step, if any: arguments
                \* and outcome
  via,          \* via[c]: the method the caller of call c has called
  prepared,     \* prepared[c]: the entry the call took from the map
  thrown,       \* thrown[c]: the error object the call has thrown
  found,        \* found[c]: what the call has met: the signature of the
                \* response, the behaviour of the codec, the error first raised
  result        \* result[c]: the { tx_blob, hash } returned in the latest step

signVars == <<preparedTransactions, nextTxId, spc, ph, hist, outcome,
              consumed, requests, signed, via, prepared, thrown, found,
              result>>

VARIABLES
  derCall       \* the toDER call under test: its arguments, what it did, and
                \* what a second call with the same arguments did

VARIABLES
  custody       \* the custody service: "open" while a signing request may
                \* still be pending, "settled" once every status it reports
                \* is COMPLETED or a terminal failure

VARIABLES
  net           \* the getNetworkParams call under way: its argument
                \* maxRetries, its loop counter, its lastError, the calls of
                \* getSequencesAndFee it has made and how they failed, and
                \* what it returned or threw

VARIABLES
  connected,    \* client.isConnected() of the client of one FireblocksXrpSdk
  op            \* op[o]: the transaction method that caller o runs on that
                \* sdk: its position, the calls signAndSubmitTx has made, what
                \* signAsync resolved with, the argument of submitAndWait, and
                \* what the method returned or threw

sdkVars == <<net, connected, op>>

vars == <<poolVars, signVars, derCall, custody, sdkVars>>

(***************************************************************************)
(* Map<string, SdkPoolItem>: a sequence of items in insertion order        *)
(***************************************************************************)
Keys(pool) == {pool[i].key : i \in 1..Len(pool)}

Has(pool, k) == k \in Keys(pool)

Idx(pool, k) == CHOOSE i \in 1..Len(pool) : pool[i].key = k

Get(pool, k) == pool[Idx(pool, k)]

MapSet(pool, k, it) ==
  IF Has(pool, k) THEN [pool EXCEPT ![Idx(pool, k)] = it]
  ELSE Append(pool, it)

MapDelete(pool, k) == SelectSeq(pool, LAMBDA e : e.key # k)

PoolItem(k, h, t, u) ==
  [key |-> k, sdk |-> h, lastUsed |-> t, isInUse |-> u]

\* poolItem.lastUsed = new Date(); poolItem.isInUse = flag, applied to the
\* item object whose sdk is h: visible in the pool only while that object is
\* still the one stored under k
Touch(pool, k, h, t, u) ==
  IF Has(pool, k) /\ Get(pool, k).sdk = h
  THEN [pool EXCEPT ![Idx(pool, k)].lastUsed = t, ![Idx(pool, k)].isInUse = u]
  ELSE pool

(***************************************************************************)
(* removeOldestIdleSdk: the scan for the oldest idle instance              *)
(***************************************************************************)
RECURSIVE ScanOldest(_, _, _, _)
ScanOldest(pool, i, key, date) ==
  IF i > Len(pool) THEN key
  ELSE IF ~pool[i].isInUse /\ pool[i].lastUsed < date
       THEN ScanOldest(pool, i + 1, pool[i].key, pool[i].lastUsed)
       ELSE ScanOldest(pool, i + 1, key, date)

\* a scan that forgets the isInUse test of line 154
RECURSIVE ScanOldestAny(_, _, _, _)
ScanOldestAny(pool, i, key, date) ==
  IF i > Len(pool) THEN key
  ELSE IF pool[i].lastUsed < date
       THEN ScanOldestAny(pool, i + 1, pool[i].key, pool[i].lastUsed)
       ELSE ScanOldestAny(pool, i + 1, key, date)

FindOldestIdle_AnyEntry(pool, date) == ScanOldestAny(pool, 1, NoKey, date)

FindOldestIdle(pool, date) == ScanOldest(pool, 1, NoKey, date)

(***************************************************************************)
(* cleanupIdleSdks: the scan for the keys to remove                        *)
(***************************************************************************)
IsExpired(e, t) == ~e.isInUse /\ t - e.lastUsed > idleTimeoutMs

RECURSIVE KeysOf(_)
KeysOf(pool) ==
  IF pool = <<>> THEN <<>> ELSE <<Head(pool).key>> \o KeysOf(Tail(pool))

KeysToRemove(pool, t) == KeysOf(SelectSeq(pool, LAMBDA e : IsExpired(e, t)))

\* a key no longer in the pool makes poolItem.sdk throw inside the try block:
\* the error is logged and the loop goes on with the next key
RECURSIVE SkipMissing(_, _)
SkipMissing(keys, pool) ==
  IF keys = <<>> THEN <<>>
  ELSE IF Has(pool, Head(keys)) THEN keys
       ELSE SkipMissing(Tail(keys), pool)

cleanVars == <<cleanPc, cleanKeys, cleanSdk, cleanNow>>

\* state of shutdown() that the steps of getSdk leave alone
shutVars == <<cleanupInterval, shutPc, shutDowns>>

\* the executeTransaction call of a task: its phase, its arguments, the number
\* of releaseSdk calls it has made, the error raised inside it, the error
\* it has thrown to its caller, and the sdk it holds (`sdk` of line 46, from
\* the return of getSdk to the end of the call)
Exec(p, v, ty, n, r, e) ==
  [phase |-> p, vault |-> v, type |-> ty, releases |-> n, raised |-> r,
   error |-> e, sdk |-> NoSdk]
NoExec == Exec("idle", NoKey, "", 0, "", "")

\* task t is not inside a getSdk call: it may call, directly or from the
\* executeTransaction call it has entered
CanCall(t) == pc[t] = "idle" /\ exec[t].phase \in {"idle", "calling"}

\* a getSdk call made by executeTransaction has the account of that call
Argument(t, v) == exec[t].phase = "calling" => exec[t].vault = v

\* a step of another operation of the pool while shutdown() is suspended
Interleaves == interleaved' = (interleaved \/ shutPc = "shutting")

\* getSdk is entered by task t with argument v and suspends
Enter(t, v, where) ==
  /\ pc' = [pc EXCEPT ![t] = where]
  /\ vault' = [vault EXCEPT ![t] = v]
  /\ last' = NoOutcome
  /\ Argument(t, v)
  /\ exec' = [exec EXCEPT ![t].phase = IF @ = "calling" THEN "acquiring" ELSE @]
  /\ Interleaves
  /\ UNCHANGED <<removed, suspended>>

\* the call of task t ends: it returns sdk h or throws error e
Finish(t, v, h, e, branch) ==
  /\ pc' = [pc EXCEPT ![t] = "idle"]
  /\ vault' = [vault EXCEPT ![t] = NoKey]
  /\ last' = Outcome(v, h, e, branch)
  /\ item' = [item EXCEPT ![t] = NoSdk]
  /\ oldestKey' = [oldestKey EXCEPT ![t] = NoKey]
  /\ Argument(t, v)
  /\ exec' = [exec EXCEPT ![t] =
                IF @.phase \in {"calling", "acquiring"}
                THEN [@ EXCEPT !.phase = IF e = "" THEN "acquired" ELSE "failed",
                               !.raised = e,
                               !.sdk = h]
                ELSE @]
  /\ Interleaves
  /\ removed' = [removed EXCEPT ![t] = FALSE]
  /\ suspended' = suspended \ {t}

(***************************************************************************)
(* getSdk(vaultAccountId), first segment: lines 49-99 up to the first      *)
(* await (or the return of the reuse branches)                             *)
(***************************************************************************)
\* the reuse branch without line 57 (poolItem.isInUse = true)
GetSdkReuse_LeavesIdle(t, v) ==
  /\ CanCall(t)
  /\ Has(sdkPool, v) /\ ~Get(sdkPool, v).isInUse
  /\ sdkPool' = Touch(sdkPool, v, Get(sdkPool, v).sdk, now, FALSE)
  /\ Finish(t, v, Get(sdkPool, v).sdk, "", "reuse")
  /\ UNCHANGED <<nextSdk, now, cleanVars, shutVars, shutSeen, metrics>>
  /\ UNCHANGED tornDown
  /\ UNCHANGED <<signVars, derCall, custody, sdkVars>>

\* lines 54-59: the instance exists and is not in use
GetSdkReuse(t, v) ==
  /\ CanCall(t)
  /\ Has(sdkPool, v) /\ ~Get(sdkPool, v).isInUse
  /\ sdkPool' = Touch(sdkPool, v, Get(sdkPool, v).sdk, now, TRUE)
  /\ Finish(t, v, Get(sdkPool, v).sdk, "", "reuse")
  /\ UNCHANGED <<nextSdk, now, cleanVars, shutVars, shutSeen, metrics>>
  /\ UNCHANGED tornDown
  /\ UNCHANGED <<signVars, derCall, custody, sdkVars>>

\* lines 62-64 and 148-163: the pool is full, an idle instance is found and
\* its shutDown() is awaited
GetSdkEvict(t, v) ==
  /\ CanCall(t)
  /\ ~Has(sdkPool, v) /\ Len(sdkPool) >= maxPoolSize
  /\ LET k == FindOldestIdle(sdkPool, now) IN
       /\ k # NoKey
       /\ Enter(t, v, "evicting")
       /\ oldestKey' = [oldestKey EXCEPT ![t] = k]
       /\ item' = [item EXCEPT ![t] = Get(sdkPool, k).sdk]
       /\ tornDown' = tornDown \cup {Get(sdkPool, k).sdk.id}
  /\ UNCHANGED <<sdkPool, nextSdk, now, cleanVars, shutVars, shutSeen, metrics>>
  /\ UNCHANGED <<signVars, derCall, custody, sdkVars>>

\* lines 62-65 and 148-168: the pool is full and no idle instance is found
GetSdkFull(t, v) ==
  /\ CanCall(t)
  /\ ~Has(sdkPool, v) /\ Len(sdkPool) >= maxPoolSize
  /\ FindOldestIdle(sdkPool, now) = NoKey
  /\ Enter(t, v, "full")
  /\ UNCHANGED <<sdkPool, nextSdk, now, item, oldestKey, cleanVars, shutVars, shutSeen, metrics>>
  /\ UNCHANGED tornDown
  /\ UNCHANGED <<signVars, derCall, custody, sdkVars>>

\* lines 76-77: no instance and room in the pool: createSdkInstance is awaited
GetSdkCreate(t, v) ==
  /\ CanCall(t)
  /\ ~Has(sdkPool, v) /\ Len(sdkPool) < maxPoolSize
  /\ Enter(t, v, "creating")
  /\ UNCHANGED <<sdkPool, nextSdk, now, item, oldestKey, cleanVars, shutVars, shutSeen, metrics>>
  /\ UNCHANGED tornDown
  /\ UNCHANGED <<signVars, derCall, custody, sdkVars>>

\* lines 84-98: the instance exists and is in use.  Whether its client is
\* connected is decided by the transaction methods run on the sdk and by the
\* transport: both outcomes of isConnected() are possible.
GetSdkShared(t, v) ==
  /\ CanCall(t)
  /\ Has(sdkPool, v) /\ Get(sdkPool, v).isInUse
  /\ sdkPool' = Touch(sdkPool, v, Get(sdkPool, v).sdk, now, TRUE)
  /\ Finish(t, v, Get(sdkPool, v).sdk, "", "shared")
  /\ UNCHANGED <<nextSdk, now, cleanVars, shutVars, shutSeen, metrics>>
  /\ UNCHANGED tornDown
  /\ UNCHANGED <<signVars, derCall, custody, sdkVars>>

GetSdkReconnect(t, v) ==
  /\ CanCall(t)
  /\ Has(sdkPool, v) /\ Get(sdkPool, v).isInUse
  /\ Enter(t, v, "reconnecting")
  /\ item' = [item EXCEPT ![t] = Get(sdkPool, v).sdk]
  /\ UNCHANGED <<sdkPool, nextSdk, now, oldestKey, cleanVars, shutVars, shutSeen, metrics>>
  /\ UNCHANGED tornDown
  /\ UNCHANGED <<signVars, derCall, custody, sdkVars>>

(***************************************************************************)
(* getSdk, the segments after an await                                     *)
(***************************************************************************)
\* lines 163-165, 76-77: shutDown() of the evicted instance has ended
EvictFinish(t) ==
  /\ pc[t] = "evicting"
  /\ sdkPool' = MapDelete(sdkPool, oldestKey[t])
  /\ pc' = [pc EXCEPT ![t] = "creating"]
  /\ item' = [item EXCEPT ![t] = NoSdk]
  /\ oldestKey' = [oldestKey EXCEPT ![t] = NoKey]
  /\ last' = NoOutcome
  /\ shutSeen' = shutSeen \ {oldestKey[t]}
  /\ UNCHANGED <<nextSdk, now, vault, cleanVars, shutVars, metrics>>
  /\ UNCHANGED <<interleaved, exec>>
  /\ removed' = [removed EXCEPT ![t] = TRUE]
  /\ UNCHANGED <<tornDown, suspended>>
  /\ UNCHANGED <<signVars, derCall, custody, sdkVars>>

\* line 163: shutDown() of the evicted instance throws (client.disconnect()
\* rejects); the error leaves removeOldestIdleSdk and getSdk as it is
EvictThrow(t) ==
  /\ pc[t] = "evicting"
  /\ Finish(t, vault[t], NoSdk, "Error", "evict")
  /\ UNCHANGED <<sdkPool, nextSdk, now, cleanVars, shutVars, shutSeen, metrics>>
  /\ UNCHANGED tornDown
  /\ UNCHANGED <<signVars, derCall, custody, sdkVars>>

\* lines 65-72: removeOldestIdleSdk returned false
GetSdkThrowFull(t) ==
  /\ pc[t] = "full"
  /\ Finish(t, vault[t], NoSdk, CapacityError, "full")
  /\ UNCHANGED <<sdkPool, nextSdk, now, cleanVars, shutVars, shutSeen, metrics>>
  /\ UNCHANGED tornDown
  /\ UNCHANGED <<signVars, derCall, custody, sdkVars>>

\* lines 77-83 and 119-142: createSdkInstance has ended
CreateFinish(t) ==
  /\ pc[t] = "creating"
  /\ \/ /\ nextSdk < MaxSdks
        /\ nextSdk' = nextSdk + 1
        /\ sdkPool' = MapSet(sdkPool, vault[t],
                        PoolItem(vault[t], Sdk(nextSdk + 1, vault[t]), now, TRUE))
        /\ Finish(t, vault[t], Sdk(nextSdk + 1, vault[t]), "", "create")
     \/ /\ Finish(t, vault[t], NoSdk, "SdkCreationFailed", "create")
        /\ UNCHANGED <<sdkPool, nextSdk>>
  /\ UNCHANGED <<now, cleanVars, shutVars, shutSeen, metrics>>
  /\ UNCHANGED tornDown
  /\ UNCHANGED <<signVars, derCall, custody, sdkVars>>

\* lines 88-98: client.connect() has ended: it resolved, or it rejected and
\* the catch of lines 90-95 logged the error; getSdk returns the sdk
ReconnectFinish(t) ==
  /\ pc[t] = "reconnecting"
  /\ sdkPool' = Touch(sdkPool, vault[t], item[t], now, TRUE)
  /\ \/ Finish(t, vault[t], item[t], "", "shared")
     \/ Finish(t, vault[t], item[t], "", "reconnect failed")
  /\ UNCHANGED <<nextSdk, now, cleanVars, shutVars, shutSeen, metrics>>
  /\ UNCHANGED tornDown
  /\ UNCHANGED <<signVars, derCall, custody, sdkVars>>

(***************************************************************************)
(* releaseSdk(vaultAccountId), lines 106-112                               *)
(***************************************************************************)
\* lines 107-111: the pool after releaseSdk(v) at time t
Released_KeepsTimestamp(pool, v, t) ==
  IF Has(pool, v)
  THEN Touch(pool, v, Get(pool, v).sdk, Get(pool, v).lastUsed, FALSE)
  ELSE pool

Released(pool, v, t) ==
  IF Has(pool, v) THEN Touch(pool, v, Get(pool, v).sdk, t, FALSE) ELSE pool

ReleaseSdk(v) ==
  /\ sdkPool' = Released(sdkPool, v, now)
  /\ last' = Outcome(v, NoSdk, "", "releaseSdk")
  /\ Interleaves
  /\ UNCHANGED <<nextSdk, now, pc, vault, item, oldestKey, cleanVars>>
  /\ UNCHANGED <<shutVars, shutSeen, metrics, exec>>
  /\ UNCHANGED <<removed, tornDown, suspended>>
  /\ UNCHANGED <<signVars, derCall, custody, sdkVars>>

(***************************************************************************)
(* FbksXrpApiService.executeTransaction, src/src/api/ApiService.ts 41-114  *)
(***************************************************************************)
\* the transaction types the switch of lines 53-90 has a case for
Handled ==
  {"offerCreate", "offerCancel", "crossCurrencyPayment", "accountSet",
   "trustSet", "tokenTransfer", "burnToken", "freezeToken", "clawback",
   "xrpTransfer"}

\* types a caller passes: one with a case, a member of the enum without a
\* case, and a string that is not in the enum
TransactionTypes == {"xrpTransfer", "oracleSet", "INVALID_TYPE"}

\* lines 41-49: executeTransaction(v, ty, params) is entered by task t; the
\* first segment of its getSdk(v) call is the next step of t
ExecuteTransaction(t, v, ty) ==
  /\ pc[t] = "idle"
  /\ exec[t].phase \in {"idle", "done"}
  /\ exec' = [exec EXCEPT ![t] = Exec("calling", v, ty, 0, "", "")]
  /\ last' = NoOutcome
  /\ UNCHANGED <<sdkPool, nextSdk, now, pc, vault, item, oldestKey, cleanVars>>
  /\ UNCHANGED <<shutVars, shutSeen, interleaved, metrics>>
  /\ UNCHANGED <<removed, tornDown, suspended>>
  /\ UNCHANGED <<signVars, derCall, custody, sdkVars>>

\* lines 102-113 after a rejected getSdk: the error is logged and rethrown;
\* sdk is unassigned, so that the finally block releases nothing
ExecAcquireFails(t) ==
  /\ exec[t].phase = "failed"
  /\ exec' = [exec EXCEPT ![t].phase = "done", ![t].error = exec[t].raised]
  /\ last' = NoOutcome
  /\ UNCHANGED <<sdkPool, nextSdk, now, pc, vault, item, oldestKey, cleanVars>>
  /\ UNCHANGED <<shutVars, shutSeen, interleaved, metrics>>
  /\ UNCHANGED <<removed, tornDown, suspended>>
  /\ UNCHANGED <<signVars, derCall, custody, sdkVars>>

\* lines 49-99 after a resolved getSdk: a type with a case awaits the method
\* of the sdk; any other type throws InvalidType, which is rethrown after
\* the finally block has released the sdk
ExecDispatch(t) ==
  /\ exec[t].phase = "acquired"
  /\ IF exec[t].type \in Handled
     THEN /\ exec' = [exec EXCEPT ![t].phase = "running"]
          /\ UNCHANGED <<sdkPool, interleaved>>
     ELSE /\ exec' = [exec EXCEPT ![t].phase = "done",
                                  ![t].raised = "InvalidType",
                                  ![t].error = "InvalidType",
                                  ![t].releases = @ + 1,
                                  ![t].sdk = NoSdk]
          /\ sdkPool' = Released(sdkPool, exec[t].vault, now)
          /\ Interleaves
  /\ last' = NoOutcome
  /\ UNCHANGED <<nextSdk, now, pc, vault, item, oldestKey, cleanVars>>
  /\ UNCHANGED <<shutVars, shutSeen, metrics>>
  /\ UNCHANGED <<removed, tornDown, suspended>>
  /\ UNCHANGED <<signVars, derCall, custody, sdkVars>>

\* executeTransaction with the release in the try block, after the method
ExecOperationEnds_ReleaseOnSuccess(t, err) ==
  /\ exec[t].phase = "running"
  /\ exec' = [exec EXCEPT ![t].phase = "done",
                          ![t].raised = err,
                          ![t].error = err,
                          ![t].releases = IF err = "" THEN @ + 1 ELSE @,
                          ![t].sdk = NoSdk]
  /\ sdkPool' = IF err = "" THEN Released(sdkPool, exec[t].vault, now)
                ELSE sdkPool
  /\ Interleaves
  /\ last' = NoOutcome
  /\ UNCHANGED <<nextSdk, now, pc, vault, item, oldestKey, cleanVars>>
  /\ UNCHANGED <<shutVars, shutSeen, metrics>>
  /\ UNCHANGED <<removed, tornDown, suspended>>
  /\ UNCHANGED <<signVars, derCall, custody, sdkVars>>

\* lines 55-113: the method of the sdk has ended, by returning (err = "") or
\* by throwing err; an error is logged and rethrown, and the finally block
\* releases the sdk
ExecOperationEnds(t, err) ==
  /\ exec[t].phase = "running"
  /\ exec' = [exec EXCEPT ![t].phase = "done",
                          ![t].raised = err,
                          ![t].error = err,
                          ![t].releases = @ + 1,
                          ![t].sdk = NoSdk]
  /\ sdkPool' = Released(sdkPool, exec[t].vault, now)
  /\ Interleaves
  /\ last' = NoOutcome
  /\ UNCHANGED <<nextSdk, now, pc, vault, item, oldestKey, cleanVars>>
  /\ UNCHANGED <<shutVars, shutSeen, metrics>>
  /\ UNCHANGED <<removed, tornDown, suspended>>
  /\ UNCHANGED <<signVars, derCall, custody, sdkVars>>

(***************************************************************************)
(* cleanupIdleSdks, lines 174-197                                          *)
(***************************************************************************)
\* the loop of lines 187-196 from its head up to the next awaited shutDown()
CleanupLoop(keys, pool) ==
  LET rest == SkipMissing(keys, pool) IN
    /\ sdkPool' = pool
    /\ cleanKeys' = rest
    /\ cleanPc' = IF rest = <<>> THEN "idle" ELSE "shutting"
    /\ cleanSdk' = IF rest = <<>> THEN NoSdk ELSE Get(pool, Head(rest)).sdk
    /\ tornDown' = IF rest = <<>> THEN tornDown
                   ELSE tornDown \cup {Get(pool, Head(rest)).sdk.id}

\* the interval timer fires: lines 175-190
CleanupStart ==
  /\ cleanupInterval
  /\ cleanPc = "idle"
  /\ CleanupLoop(KeysToRemove(sdkPool, now), sdkPool)
  /\ cleanNow' = now
  /\ last' = NoOutcome
  /\ UNCHANGED <<nextSdk, now, pc, vault, item, oldestKey>>
  /\ UNCHANGED <<shutVars, shutSeen, interleaved, metrics, exec>>
  /\ UNCHANGED <<removed, suspended>>
  /\ UNCHANGED <<signVars, derCall, custody, sdkVars>>

\* lines 190-192: shutDown() has ended, the key is deleted; next iteration
CleanupFinish ==
  /\ cleanPc = "shutting"
  /\ CleanupLoop(Tail(cleanKeys), MapDelete(sdkPool, Head(cleanKeys)))
  /\ shutSeen' = shutSeen \ {Head(cleanKeys)}
  /\ last' = NoOutcome
  /\ UNCHANGED <<nextSdk, now, pc, vault, item, oldestKey, cleanNow>>
  /\ UNCHANGED <<shutVars, interleaved, metrics, exec>>
  /\ UNCHANGED <<removed, suspended>>
  /\ UNCHANGED <<signVars, derCall, custody, sdkVars>>

\* lines 193-195: shutDown() has thrown, the error is logged; next iteration
CleanupCatch ==
  /\ cleanPc = "shutting"
  /\ CleanupLoop(Tail(cleanKeys), sdkPool)
  /\ last' = NoOutcome
  /\ UNCHANGED <<nextSdk, now, pc, vault, item, oldestKey, cleanNow>>
  /\ UNCHANGED <<shutVars, shutSeen, interleaved, metrics, exec>>
  /\ UNCHANGED <<removed, suspended>>
  /\ UNCHANGED <<signVars, derCall, custody, sdkVars>>

(***************************************************************************)
(* getMetrics(), lines 202-220                                             *)
(***************************************************************************)
SdkManagerMetrics(total, active, idle, byVault) ==
  [totalInstances |-> total, activeInstances |-> active,
   idleInstances |-> idle, instancesByVaultAccount |-> byVault]

\* the loop of getMetrics counting every entry as active
RECURSIVE CountInstances_AllActive(_, _, _)
CountInstances_AllActive(pool, i, m) ==
  IF i > Len(pool) THEN m
  ELSE CountInstances_AllActive(pool, i + 1,
         [m EXCEPT
            !.activeInstances = @ + 1,
            !.instancesByVaultAccount =
               [k \in DOMAIN @ \cup {pool[i].key} |->
                  IF k = pool[i].key THEN pool[i].isInUse ELSE @[k]]])

\* lines 210-217: the loop over the entries, from entry i on, with the
\* metrics object m built so far
RECURSIVE CountInstances(_, _, _)
CountInstances(pool, i, m) ==
  IF i > Len(pool) THEN m
  ELSE CountInstances(pool, i + 1,
         [m EXCEPT
            !.activeInstances = IF pool[i].isInUse THEN @ + 1 ELSE @,
            !.idleInstances = IF pool[i].isInUse THEN @ ELSE @ + 1,
            !.instancesByVaultAccount =
               [k \in DOMAIN @ \cup {pool[i].key} |->
                  IF k = pool[i].key THEN pool[i].isInUse ELSE @[k]]])

GetMetrics_AllActive(pool) ==
  CountInstances_AllActive(pool, 1, SdkManagerMetrics(Len(pool), 0, 0, <<>>))

GetMetrics(pool) ==
  CountInstances(pool, 1, SdkManagerMetrics(Len(pool), 0, 0, <<>>))

\* a caller reads the metrics
GetMetricsCall ==
  /\ metrics' = GetMetrics(sdkPool)
  /\ UNCHANGED <<sdkPool, nextSdk, now, pc, vault, item, oldestKey, last>>
  /\ UNCHANGED <<cleanVars, shutVars, shutSeen, interleaved, exec>>
  /\ UNCHANGED <<removed, tornDown, suspended>>
  /\ UNCHANGED <<signVars, derCall, custody, sdkVars>>

(***************************************************************************)
(* shutdown(), lines 225-239                                               *)
(***************************************************************************)
\* entries the Map iterator of line 228 has still to yield: those it has not
\* passed (an entry added during the loop is at the end and is yielded too)
Unseen(pool, seen) == SelectSeq(pool, LAMBDA e : e.key \notin seen)

\* the loop of shutdown() without line 237 (sdkPool.clear())
ShutdownLoop_NoClear(seen) ==
  LET rest == Unseen(sdkPool, seen) IN
    IF rest # <<>>
    THEN /\ shutPc' = "shutting"
         /\ shutSeen' = seen \cup {Head(rest).key}
         /\ shutDowns' = shutDowns \cup {Head(rest).sdk.id}
         /\ tornDown' = tornDown \cup {Head(rest).sdk.id}
         /\ UNCHANGED <<sdkPool, suspended>>
    ELSE /\ shutPc' = "done"
         /\ shutSeen' = {}
         /\ suspended' = {t \in Tasks : pc[t] # "idle"}
         /\ UNCHANGED tornDown
         /\ UNCHANGED <<sdkPool, shutDowns>>

\* lines 228-238 from the head of the loop up to the next awaited shutDown(),
\* or, when the iterator is exhausted, to the end of shutdown()
ShutdownLoop(seen) ==
  LET rest == Unseen(sdkPool, seen) IN
    IF rest # <<>>
    THEN /\ shutPc' = "shutting"
         /\ shutSeen' = seen \cup {Head(rest).key}
         /\ shutDowns' = shutDowns \cup {Head(rest).sdk.id}
         /\ tornDown' = tornDown \cup {Head(rest).sdk.id}
         /\ UNCHANGED <<sdkPool, suspended>>
    ELSE /\ shutPc' = "done"
         /\ shutSeen' = {}
         /\ suspended' = {t \in Tasks : pc[t] # "idle"}
         /\ UNCHANGED tornDown
         /\ sdkPool' = <<>>
         /\ UNCHANGED shutDowns

\* lines 226-230: the timer is cleared and the loop begins
Shutdown ==
  /\ shutPc = "idle"
  /\ cleanupInterval' = FALSE
  /\ ShutdownLoop({})
  /\ interleaved' = ((\E t \in Tasks : pc[t] # "idle") \/ cleanPc # "idle")
  /\ last' = NoOutcome
  /\ UNCHANGED <<nextSdk, now, pc, vault, item, oldestKey, cleanVars>>
  /\ UNCHANGED <<metrics, exec>>
  /\ UNCHANGED removed
  /\ UNCHANGED <<signVars, derCall, custody, sdkVars>>

\* lines 230-234: shutDown() of the current entry has ended, by returning or
\* by throwing (the error is logged); the loop goes on
ShutdownResume ==
  /\ shutPc = "shutting"
  /\ ShutdownLoop(shutSeen)
  /\ last' = NoOutcome
  /\ UNCHANGED <<nextSdk, now, pc, vault, item, oldestKey, cleanVars>>
  /\ UNCHANGED <<cleanupInterval, interleaved, metrics, exec>>
  /\ UNCHANGED removed
  /\ UNCHANGED <<signVars, derCall, custody, sdkVars>>

(***************************************************************************)
(* Environment of the pool                                                 *)
(***************************************************************************)
\* time passes
Tick(limit) ==
  /\ now < limit
  /\ now' = now + 1
  /\ last' = NoOutcome
  /\ UNCHANGED <<sdkPool, nextSdk, pc, vault, item, oldestKey, cleanVars>>
  /\ UNCHANGED <<shutVars, shutSeen, interleaved, metrics, exec>>
  /\ UNCHANGED <<removed, tornDown, suspended>>
  /\ UNCHANGED <<signVars, derCall, custody, sdkVars>>

(***************************************************************************)
(* SigningService                                                          *)
(***************************************************************************)
Calls == {"c1", "c2"}

\* TransactionStateEnum values the code distinguishes, and one that it does not
Completed == "COMPLETED"
Blocked == "BLOCKED"
Cancelled == "CANCELLED"
Failed == "FAILED"
Rejected == "REJECTED"
Submitted == "SUBMITTED"
Statuses == {Submitted, Completed, Blocked, Cancelled, Failed, Rejected}

\* the two token prefixes of a placeholder
PreparedPrefix == "prepared:"
HashPrefix == "hash:"

\* a token: prefix and embedded identifier
Token(pre, i) == [prefix |-> pre, id |-> i]
NoToken == Token("", 0)

\* a Transaction object, as far as signing reads and writes it: the names of
\* its own properties among TxnSignature, Signers and SigningPubKey, and their
\* values ("" and <<>> for a property the object does not have)
Tx(fields, sig, signers, key) ==
  [fields |-> fields, TxnSignature |-> sig, Signers |-> signers,
   SigningPubKey |-> key]

\* the value null passed as transaction: a property read on it throws
NullTransaction == Tx({"<null>"}, "", <<>>, "")

\* an element of a Signers array
Signer(account, key, sig) ==
  [Account |-> account, SigningPubKey |-> key, TxnSignature |-> sig]

\* `transaction.TxnSignature` and `transaction.Signers` read as conditions: an
\* absent property and the empty string are falsy, an array is truthy
HasTxnSignature(tx) == "TxnSignature" \in tx.fields /\ tx.TxnSignature # ""

HasSigners(tx) == "Signers" \in tx.fields

\* the publicKey argument of sign(), and the wallet of the service
PublicKey == "publicKey"
WalletPublicKey == "walletPublicKey"
ClassicAddress == "classicAddress"

\* error objects: a SigningError with its code, and any other exception
SigningError(code) == [name |-> "SigningError", code |-> code]
RawError(message) == [name |-> "Error", code |-> message]
NoError == [name |-> "", code |-> ""]

\* a catch block that rethrows what it caught
Wrap_Rethrows(err, code) == err

\* `err instanceof SigningError ? err : new SigningError(code, ...)`
Wrap(err, code) == IF err.name = "SigningError" THEN err ELSE SigningError(code)

\* an entry of preparedTransactions; NoEntry: the key is absent
Entry(tx, m) == [tx |-> tx, multisignAddress |-> m]
NoEntry == Entry(Tx({}, "", <<>>, "none"), "none")

\* a sign() call: its arguments, the placeholder it returned or the error it
\* threw, the error first raised inside it, and the method it was made by
\* (the caller itself, written "sign", or signAsync)
SignCall(transaction, multisign, blob, hash, err, raised) ==
  [transaction |-> transaction, multisign |-> multisign,
   tx_blob |-> blob, hash |-> hash, error |-> err, raised |-> raised,
   by |-> "sign"]
NoSignCall == SignCall(Tx({}, "", <<>>, ""), "undefined", NoToken, NoToken,
                       NoError, NoError)

\* what a getSignedTransaction call has met
Seen(sig, codec, raised) ==
  [signature |-> sig, codec |-> codec, raised |-> raised]
NoSeen == Seen("unknown", "", NoError)
Raised(err) == Seen("unknown", "", err)

\* what getSignedTransaction returns
NoResult == [tx_blob |-> NoToken, hash |-> NoToken]
NoResults == [c \in {"c1", "c2"} |-> NoResult]

TxIds == 1..(MaxPrepared + 1)

\* call c ends: it returns a signed transaction or throws the error `code`
End(c, code) ==
  /\ spc' = [spc EXCEPT ![c] = "done"]
  /\ outcome' = [outcome EXCEPT ![c] = code]

\* the catch block of signAsync (lines 51-58), for a call made through it
InSignAsync(c, err) ==
  IF via[c] = "signAsync" THEN Wrap(err, "SignAsyncFailed") ELSE err

\* call c, having met `met`, throws err out of getSignedTransaction, and out
\* of signAsync
Throw(c, met, err) ==
  /\ End(c, InSignAsync(c, err).code)
  /\ thrown' = [thrown EXCEPT ![c] = InSignAsync(c, err)]
  /\ found' = [found EXCEPT ![c] = met]
  /\ prepared' = [prepared EXCEPT ![c] = NoEntry]
  /\ result' = NoResults

(***************************************************************************)
(* sign(transaction, publicKey, multisign), lines 61-119                   *)
(***************************************************************************)
\* lines 70-75: the multisign argument resolved; the booleans are written
\* "true" and "false", and "undefined" is the omitted argument
MultisignAddress(multisign) ==
  IF multisign = "true" THEN ClassicAddress
  ELSE IF multisign \in {"false", "undefined"} THEN "false"
  ELSE multisign

\* multisignAddress read as a condition: false and "" are falsy
IsMultisign(m) == m \notin {"false", ""}

\* lines 78-83: the error raised in the try block of sign(), or NoError
SignRaised(transaction) ==
  IF transaction = NullTransaction THEN RawError("TypeError")
  ELSE IF HasTxnSignature(transaction) \/ HasSigners(transaction)
  THEN SigningError("AlreadySigned")
  ELSE NoError

\* lines 111-118: the error sign() throws, or NoError
SignError(transaction) ==
  IF SignRaised(transaction) = NoError THEN NoError
  ELSE Wrap(SignRaised(transaction), "SignFailed")

\* lines 86-93: the copy of the transaction that is stored
PreparedTx(transaction, multisign) ==
  Tx((transaction.fields \ {"TxnSignature", "Signers"}) \cup {"SigningPubKey"},
     "", <<>>,
     IF IsMultisign(MultisignAddress(multisign)) THEN "" ELSE PublicKey)

\* sign() that stores every transaction under the same key
Sign_OverwritesFirst(transaction, multisign) ==
  /\ IF SignError(transaction) # NoError
     THEN /\ signed' = SignCall(transaction, multisign, NoToken, NoToken,
                                SignError(transaction),
                                SignRaised(transaction))
          /\ UNCHANGED <<preparedTransactions, nextTxId>>
     ELSE /\ nextTxId < MaxPrepared
          /\ nextTxId' = nextTxId + 1
          /\ preparedTransactions' =
               [preparedTransactions EXCEPT ![1] =
                  Entry(PreparedTx(transaction, multisign),
                        MultisignAddress(multisign))]
          /\ signed' = SignCall(transaction, multisign,
                                Token(PreparedPrefix, nextTxId + 1),
                                Token(HashPrefix, nextTxId + 1), NoError,
                                NoError)
  /\ result' = NoResults
  /\ UNCHANGED <<spc, ph, hist, outcome, consumed, requests>>
  /\ UNCHANGED <<via, prepared, thrown, found>>
  /\ UNCHANGED <<poolVars, derCall, custody, sdkVars>>

\* lines 61-119: a transaction that passes the check of line 78 is stored
\* under a fresh identifier and its placeholder is returned
Sign(transaction, multisign) ==
  /\ IF SignError(transaction) # NoError
     THEN /\ signed' = SignCall(transaction, multisign, NoToken, NoToken,
                                SignError(transaction),
                                SignRaised(transaction))
          /\ UNCHANGED <<preparedTransactions, nextTxId>>
     ELSE /\ nextTxId < MaxPrepared
          /\ nextTxId' = nextTxId + 1
          /\ preparedTransactions' =
               [preparedTransactions EXCEPT ![nextTxId + 1] =
                  Entry(PreparedTx(transaction, multisign),
                        MultisignAddress(multisign))]
          /\ signed' = SignCall(transaction, multisign,
                                Token(PreparedPrefix, nextTxId + 1),
                                Token(HashPrefix, nextTxId + 1), NoError,
                                NoError)
  /\ result' = NoResults
  /\ UNCHANGED <<spc, ph, hist, outcome, consumed, requests>>
  /\ UNCHANGED <<via, prepared, thrown, found>>
  /\ UNCHANGED <<poolVars, derCall, custody, sdkVars>>

(***************************************************************************)
(* getSignedTransaction(placeholder, ...), lines 274-367                   *)
(***************************************************************************)
\* the catch blocks of waitForSignature (261-268) and of
\* getSignedTransaction (357-366)
InWaitForSignature(err) == Wrap(err, "WaitForSignatureFailed")

InGetSignedTransaction(err) == Wrap(err, "GetSignedTransactionFailed")

\* lines 283-317 from the prefix check to the awaited createTransaction, for
\* a call c that has token p, with the map as it is in `map`
Lookup(c, p, map) ==
  IF p.prefix # PreparedPrefix
  THEN /\ Throw(c, Raised(SigningError("InvalidPlaceholder")),
               SigningError("InvalidPlaceholder"))
       /\ preparedTransactions' = map
       /\ UNCHANGED consumed
  ELSE IF map[p.id] = NoEntry
  THEN /\ Throw(c, Raised(SigningError("PlaceholderExpired")),
               SigningError("PlaceholderExpired"))
       /\ preparedTransactions' = map
       /\ UNCHANGED consumed
  ELSE /\ preparedTransactions' = [map EXCEPT ![p.id] = NoEntry]
       /\ prepared' = [prepared EXCEPT ![c] = map[p.id]]
       /\ consumed' = [consumed EXCEPT ![p.id] = @ + 1]
       /\ spc' = [spc EXCEPT ![c] = "creating"]
       /\ outcome' = [outcome EXCEPT ![c] = ""]
       /\ thrown' = [thrown EXCEPT ![c] = NoError]
       /\ found' = [found EXCEPT ![c] = NoSeen]
       /\ result' = NoResults

\* getSignedTransaction without line 300 (preparedTransactions.delete)
GetSignedTransaction_NoDelete(c, p) ==
  /\ spc[c] \in {"idle", "done"}
  /\ ph' = [ph EXCEPT ![c] = p]
  /\ hist' = [hist EXCEPT ![c] = <<>>]
  /\ via' = [via EXCEPT ![c] = "getSignedTransaction"]
  /\ IF p.prefix # PreparedPrefix \/ preparedTransactions[p.id] = NoEntry
     THEN Lookup(c, p, preparedTransactions)
     ELSE /\ UNCHANGED preparedTransactions
          /\ prepared' = [prepared EXCEPT ![c] = preparedTransactions[p.id]]
          /\ consumed' = [consumed EXCEPT ![p.id] = @ + 1]
          /\ spc' = [spc EXCEPT ![c] = "creating"]
          /\ outcome' = [outcome EXCEPT ![c] = ""]
          /\ thrown' = [thrown EXCEPT ![c] = NoError]
          /\ found' = [found EXCEPT ![c] = NoSeen]
          /\ result' = NoResults
  /\ signed' = NoSignCall
  /\ UNCHANGED <<nextTxId, requests>>
  /\ UNCHANGED <<poolVars, derCall, custody, sdkVars>>

\* getSignedTransaction that takes the entry before it checks the prefix
GetSignedTransaction_TakesFirst(c, p) ==
  /\ spc[c] \in {"idle", "done"}
  /\ ph' = [ph EXCEPT ![c] = p]
  /\ hist' = [hist EXCEPT ![c] = <<>>]
  /\ via' = [via EXCEPT ![c] = "getSignedTransaction"]
  /\ IF p.prefix # PreparedPrefix
     THEN /\ Throw(c, Raised(SigningError("InvalidPlaceholder")),
               SigningError("InvalidPlaceholder"))
          /\ preparedTransactions' =
               [preparedTransactions EXCEPT ![p.id] = NoEntry]
          /\ UNCHANGED consumed
     ELSE Lookup(c, p, preparedTransactions)
  /\ signed' = NoSignCall
  /\ UNCHANGED <<nextTxId, requests>>
  /\ UNCHANGED <<poolVars, derCall, custody, sdkVars>>

\* lines 283-317: getSignedTransaction is called with the token p
GetSignedTransaction(c, p) ==
  /\ spc[c] \in {"idle", "done"}
  /\ ph' = [ph EXCEPT ![c] = p]
  /\ hist' = [hist EXCEPT ![c] = <<>>]
  /\ via' = [via EXCEPT ![c] = "getSignedTransaction"]
  /\ Lookup(c, p, preparedTransactions)
  /\ signed' = NoSignCall
  /\ UNCHANGED <<nextTxId, requests>>
  /\ UNCHANGED <<poolVars, derCall, custody, sdkVars>>

\* lines 35-59 and 283-317: signAsync calls sign() and, with the placeholder
\* it returns, getSignedTransaction
SignAsync(c, transaction, multisign) ==
  /\ spc[c] \in {"idle", "done"}
  /\ hist' = [hist EXCEPT ![c] = <<>>]
  /\ via' = [via EXCEPT ![c] = "signAsync"]
  /\ IF SignError(transaction) # NoError
     THEN /\ signed' = [SignCall(transaction, multisign, NoToken, NoToken,
                                 SignError(transaction),
                                 SignRaised(transaction))
                          EXCEPT !.by = "signAsync"]
          /\ ph' = [ph EXCEPT ![c] = NoToken]
          /\ End(c, Wrap(SignError(transaction), "SignAsyncFailed").code)
          /\ thrown' = [thrown EXCEPT ![c] =
                          Wrap(SignError(transaction), "SignAsyncFailed")]
          /\ found' = [found EXCEPT ![c] = Raised(SignRaised(transaction))]
          /\ prepared' = [prepared EXCEPT ![c] = NoEntry]
          /\ UNCHANGED <<preparedTransactions, nextTxId, consumed>>
          /\ result' = NoResults
     ELSE /\ nextTxId < MaxPrepared
          /\ nextTxId' = nextTxId + 1
          /\ signed' = [SignCall(transaction, multisign,
                                 Token(PreparedPrefix, nextTxId + 1),
                                 Token(HashPrefix, nextTxId + 1), NoError,
                                 NoError)
                          EXCEPT !.by = "signAsync"]
          /\ ph' = [ph EXCEPT ![c] = Token(PreparedPrefix, nextTxId + 1)]
          /\ Lookup(c, Token(PreparedPrefix, nextTxId + 1),
                    [preparedTransactions EXCEPT ![nextTxId + 1] =
                       Entry(PreparedTx(transaction, multisign),
                             MultisignAddress(multisign))])
  /\ UNCHANGED requests
  /\ UNCHANGED <<poolVars, derCall, custody, sdkVars>>

\* lines 306-321 and 225-231: createTransaction resolved; waitForSignature
\* starts and awaits its first status fetch
CreateTransactionResolves(c, hasId) ==
  /\ spc[c] = "creating"
  /\ requests' = [requests EXCEPT ![ph[c].id] = @ + 1]
  /\ IF hasId
     THEN /\ spc' = [spc EXCEPT ![c] = "fetching"]
          /\ result' = NoResults
          /\ UNCHANGED <<outcome, prepared, thrown, found>>
     ELSE Throw(c, Raised(SigningError("InvalidTxId")),
                InGetSignedTransaction(
                  InWaitForSignature(SigningError("InvalidTxId"))))
  /\ UNCHANGED <<preparedTransactions, nextTxId, ph, hist, consumed>>
  /\ signed' = NoSignCall
  /\ UNCHANGED via
  /\ UNCHANGED <<poolVars, derCall, custody, sdkVars>>

\* a rejected createTransaction after which the status is fetched all the same
CreateTransactionRejects_StartsPolling(c) ==
  /\ spc[c] = "creating"
  /\ spc' = [spc EXCEPT ![c] = "fetching"]
  /\ result' = NoResults
  /\ UNCHANGED <<outcome, prepared, thrown, found>>
  /\ UNCHANGED <<preparedTransactions, nextTxId, ph, hist, consumed, requests>>
  /\ signed' = NoSignCall
  /\ UNCHANGED via
  /\ UNCHANGED <<poolVars, derCall, custody, sdkVars>>

\* lines 306, 357-366: createTransaction rejected
CreateTransactionRejects(c) ==
  /\ spc[c] = "creating"
  /\ Throw(c, Raised(RawError("Request failed")),
           InGetSignedTransaction(RawError("Request failed")))
  /\ UNCHANGED <<preparedTransactions, nextTxId, ph, hist, consumed, requests>>
  /\ signed' = NoSignCall
  /\ UNCHANGED via
  /\ UNCHANGED <<poolVars, derCall, custody, sdkVars>>

(***************************************************************************)
(* toDER, lines 124-182                                                    *)
(***************************************************************************)
\* hex digits; a string is a sequence of one-character strings
UpperDigits ==
  <<"0", "1", "2", "3", "4", "5", "6", "7", "8", "9",
    "A", "B", "C", "D", "E", "F">>
LowerDigits ==
  <<"0", "1", "2", "3", "4", "5", "6", "7", "8", "9",
    "a", "b", "c", "d", "e", "f">>

IsHexDigit(ch) == \E i \in 1..16 : UpperDigits[i] = ch \/ LowerDigits[i] = ch

HexVal(ch) ==
  (CHOOSE i \in 1..16 : UpperDigits[i] = ch \/ LowerDigits[i] = ch) - 1

\* an argument of toDER: a string, undefined, or a value that is no string
Str(chars) == [type |-> "string", chars |-> chars]
Undefined == [type |-> "undefined", chars |-> <<>>]
NotAString == [type |-> "number", chars |-> <<>>]

\* Buffer.from(str, "hex"): two digits give a byte; decoding stops at the
\* first pair that is not two hex digits, and a last single digit is dropped
RECURSIVE FromHex(_)
FromHex(chars) ==
  IF Len(chars) < 2 THEN <<>>
  ELSE IF ~IsHexDigit(chars[1]) \/ ~IsHexDigit(chars[2]) THEN <<>>
  ELSE <<16 * HexVal(chars[1]) + HexVal(chars[2])>>
         \o FromHex(SubSeq(chars, 3, Len(chars)))

\* Buffer.from(bytes).toString("hex").toUpperCase()
RECURSIVE ToUpperHex(_)
ToUpperHex(bytes) ==
  IF bytes = <<>> THEN <<>>
  ELSE <<UpperDigits[(bytes[1] \div 16) + 1], UpperDigits[(bytes[1] % 16) + 1]>>
         \o ToUpperHex(Tail(bytes))

\* lines 126-135: rmPadding
RECURSIVE RmPadding(_)
RmPadding(buf) ==
  IF Len(buf) > 1 /\ buf[1] = 0 /\ buf[2] < 128 THEN RmPadding(Tail(buf))
  ELSE buf

\* lines 157-158: a zero byte in front of a component whose top bit is set
Positive(buf) == IF buf # <<>> /\ buf[1] >= 128 THEN <<0>> \o buf ELSE buf

\* lines 137-152: constructLength, for lengths below 0x10000; the bytes are
\* as Buffer.from stores them
ConstructLength(arr, len) ==
  IF len < 128 THEN Append(arr, len)
  ELSE IF len < 256 THEN arr \o <<129, len>>
  ELSE arr \o <<130, (len \div 256) % 256, len % 256>>

\* lines 163-165: `while (!s[0] && !(s[1] & 0x80)) s = s.slice(1)`; the
\* condition stays true once s is empty, and the loop then never ends
RECURSIVE StripS(_)
StripS(s) ==
  IF s = <<>> THEN [ends |-> FALSE, s |-> <<>>]
  ELSE IF s[1] = 0 /\ (Len(s) < 2 \/ s[2] < 128) THEN StripS(Tail(s))
  ELSE [ends |-> TRUE, s |-> s]

\* the encoding with the two components in the wrong order
DerBytes_Swapped(r, s) ==
  LET backHalf == ConstructLength(ConstructLength(<<2>>, Len(s)) \o s \o <<2>>,
                                  Len(r)) \o r
  IN ConstructLength(<<48>>, Len(backHalf)) \o backHalf

\* lines 167-173: the bytes of the encoding of the components r and s
DerBytes(r, s) ==
  LET backHalf == ConstructLength(ConstructLength(<<2>>, Len(r)) \o r \o <<2>>,
                                  Len(s)) \o s
  IN ConstructLength(<<48>>, Len(backHalf)) \o backHalf

\* what a toDER call does: it returns a string, throws, or never ends
DerResult(how, out, err) == [how |-> how, out |-> out, error |-> err]

\* lines 124-182: toDER(rHex, sHex)
ToDER(rHex, sHex) ==
  IF rHex.type = "number" \/ sHex.type = "number"
  THEN DerResult("throws", <<>>, SigningError("DEREncodingFailed"))
  ELSE LET r == RmPadding(Positive(FromHex(rHex.chars)))
           s == StripS(RmPadding(Positive(FromHex(sHex.chars))))
       IN IF ~s.ends THEN DerResult("never ends", <<>>, NoError)
          ELSE DerResult("returns", ToUpperHex(DerBytes(r, s.s)), NoError)

\* a toDER call and its repetition
DerCall(rHex, sHex, res, again, calls) ==
  [rHex |-> rHex, sHex |-> sHex, result |-> res, again |-> again,
   calls |-> calls]
NoDerResult == DerResult("", <<>>, NoError)
NoDerCall == DerCall(Undefined, Undefined, NoDerResult, NoDerResult, 0)

\* toDER is called with rHex and sHex
ToDERCall(rHex, sHex) ==
  /\ derCall.calls = 0
  /\ derCall' = DerCall(rHex, sHex, ToDER(rHex, sHex), NoDerResult, 1)
  /\ UNCHANGED <<poolVars, signVars, custody, sdkVars>>

\* toDER is called again with the arguments of the first call, if that call
\* has ended
ToDERAgain ==
  /\ derCall.calls = 1
  /\ derCall.result.how # "never ends"
  /\ derCall' = [derCall EXCEPT !.again = ToDER(derCall.rHex, derCall.sHex), !.calls = 2]
  /\ UNCHANGED <<poolVars, signVars, custody, sdkVars>>

\* arguments of toDER: every string of up to n characters among two hex
\* digits and a character that is no hex digit, undefined, and a number
HexChars == {"0", "8", "z"}
Arguments(n) ==
  {Str(chars) : chars \in UNION {[1..k -> HexChars] : k \in 0..n}}
    \cup {Undefined, NotAString}

\* the signature the custody service returns, as in the tests: r = "1234",
\* s = "5678"
SigR == Str(<<"1", "2", "3", "4">>)
SigS == Str(<<"5", "6", "7", "8">>)

(***************************************************************************)
(* getSignedTransaction, lines 322-356: the signed transaction             *)
(***************************************************************************)
\* finalTx built as for single signing whatever the mode is
FinalTx_AlwaysSingle(entry, der) ==
  Tx(entry.tx.fields \cup {"TxnSignature"}, der, entry.tx.Signers,
     entry.tx.SigningPubKey)

\* lines 331-350: finalTx
FinalTx(entry, der) ==
  IF IsMultisign(entry.multisignAddress)
  THEN Tx(entry.tx.fields \cup {"Signers"}, entry.tx.TxnSignature,
          <<Signer(IF entry.multisignAddress # "true"
                   THEN entry.multisignAddress ELSE ClassicAddress,
                   WalletPublicKey, der)>>,
          entry.tx.SigningPubKey)
  ELSE Tx(entry.tx.fields \cup {"TxnSignature"}, der, entry.tx.Signers,
          entry.tx.SigningPubKey)

\* ripple-binary-codec: encode gives a blob; decode gives back the object,
\* or, when the codec is at fault as in the tests, an object without the
\* signature properties, or it throws
Encode(tx) == [encoded |-> tx]

Codecs == {"faithful", "lossy", "throws"}

Decode(serialized, codec) ==
  IF codec = "lossy"
  THEN Tx(serialized.encoded.fields \ {"TxnSignature", "Signers"}, "", <<>>,
          serialized.encoded.SigningPubKey)
  ELSE serialized.encoded

HashSignedTx(serialized) == [hashOf |-> serialized]

\* lines 189-198: the error raised in the try block of
\* checkTxSerialization, or NoError
CheckRaised(serialized, codec) ==
  IF codec = "throws" THEN RawError("decode failed")
  ELSE IF /\ ~HasTxnSignature(Decode(serialized, codec))
          /\ ~HasSigners(Decode(serialized, codec))
  THEN SigningError("SerializationError")
  ELSE NoError

\* lines 187-218: the error checkTxSerialization throws, or NoError
CheckTxSerialization(serialized, codec) ==
  IF CheckRaised(serialized, codec) = NoError THEN NoError
  ELSE Wrap(CheckRaised(serialized, codec), "SerializationValidationFailed")

\* call c, having met `met`, returns res
Return(c, met, res) ==
  /\ End(c, "Signed")
  /\ result' = [NoResults EXCEPT ![c] = res]
  /\ prepared' = [prepared EXCEPT ![c] = NoEntry]
  /\ found' = [found EXCEPT ![c] = met]
  /\ UNCHANGED thrown

\* getSignedTransaction without the check of lines 323-328
Finalize_IgnoresMissingSignature(c, hasSig) ==
  \E codec \in Codecs :
    LET encodedTx == Encode(FinalTx(prepared[c], ToDER(SigR, SigS).out))
        err == CheckTxSerialization(encodedTx, codec)
        met == Seen(IF hasSig THEN "present" ELSE "absent", codec,
                    CheckRaised(encodedTx, codec))
    IN IF err # NoError
       THEN Throw(c, met, InGetSignedTransaction(err))
       ELSE Return(c, met, [tx_blob |-> encodedTx,
                            hash |-> HashSignedTx(encodedTx)])

\* lines 322-356: waitForSignature has returned a response, with or without
\* a signature in its first signed message
Finalize(c, hasSig) ==
  IF ~hasSig
  THEN Throw(c, Seen("absent", "", SigningError("NoSignature")),
             InGetSignedTransaction(SigningError("NoSignature")))
  ELSE \E codec \in Codecs :
         LET encodedTx == Encode(FinalTx(prepared[c], ToDER(SigR, SigS).out))
             err == CheckTxSerialization(encodedTx, codec)
             met == Seen("present", codec, CheckRaised(encodedTx, codec))
         IN IF err # NoError
            THEN Throw(c, met, InGetSignedTransaction(err))
            ELSE Return(c, met, [tx_blob |-> encodedTx,
                                 hash |-> HashSignedTx(encodedTx)])

(***************************************************************************)
(* waitForSignature, lines 220-269                                         *)
(***************************************************************************)
\* lines 242-252: the check for a terminal failure status
IsTerminalFailure(st) == st \in {Blocked, Cancelled, Failed, Rejected}

\* a loop condition that also leaves the loop on SUBMITTED
AfterFetch_LeavesOnSubmitted(c, st, hasSig) ==
  IF st # Completed /\ st # Submitted
  THEN /\ spc' = [spc EXCEPT ![c] = "sleeping"]
       /\ result' = NoResults
       /\ UNCHANGED <<outcome, prepared, thrown, found>>
  ELSE Finalize(c, hasSig)

\* lines 236 and 260, 322-356: the loop condition after a fetch; on Completed
\* waitForSignature returns and getSignedTransaction finishes the transaction
AfterFetch(c, st, hasSig) ==
  IF st # Completed
  THEN /\ spc' = [spc EXCEPT ![c] = "sleeping"]
       /\ result' = NoResults
       /\ UNCHANGED <<outcome, prepared, thrown, found>>
  ELSE Finalize(c, hasSig)

\* lines 229-236: the first getTransaction resolved with status st
FirstFetchResolves(c, st, hasSig) ==
  /\ spc[c] = "fetching" /\ hist[c] = <<>>
  /\ hist' = [hist EXCEPT ![c] = Append(@, st)]
  /\ AfterFetch(c, st, hasSig)

\* a loop body without the check of lines 242-252
AfterLoopFetch_IgnoresTerminal(c, st, hasSig) == AfterFetch(c, st, hasSig)

\* lines 242-260: the check for a terminal failure, then the loop condition
AfterLoopFetch(c, st, hasSig) ==
  IF IsTerminalFailure(st)
  THEN Throw(c, Raised(SigningError("SignatureRequestFailed")),
             InGetSignedTransaction(
               InWaitForSignature(SigningError("SignatureRequestFailed"))))
  ELSE AfterFetch(c, st, hasSig)

\* lines 238-255: a getTransaction inside the loop resolved with status st
LoopFetchResolves(c, st, hasSig) ==
  /\ spc[c] = "fetching" /\ hist[c] # <<>>
  /\ hist' = [hist EXCEPT ![c] = Append(@, st)]
  /\ AfterLoopFetch(c, st, hasSig)

\* number of status fetches answered so far
RECURSIVE SumLen(_, _)
SumLen(f, S) ==
  IF S = {} THEN 0
  ELSE LET c == CHOOSE x \in S : TRUE IN Len(f[c]) + SumLen(f, S \ {c})

GetTransactionResolves(c, st, hasSig) ==
  /\ SumLen(hist, Calls) < MaxFetches
  /\ \/ FirstFetchResolves(c, st, hasSig)
     \/ LoopFetchResolves(c, st, hasSig)
  /\ UNCHANGED <<preparedTransactions, nextTxId, ph, consumed, requests>>
  /\ signed' = NoSignCall
  /\ UNCHANGED via
  /\ UNCHANGED <<poolVars, derCall, custody, sdkVars>>

\* lines 229-260 with no bound on the number of fetches: getTransaction
\* resolved with status st; of the statuses returned only the latest is kept.
\* A settled custody service reports COMPLETED or a terminal failure.
PollFetchResolves(c, st, hasSig) ==
  /\ spc[c] = "fetching"
  /\ custody = "settled" => (st = Completed \/ IsTerminalFailure(st))
  /\ hist' = [hist EXCEPT ![c] = <<st>>]
  /\ IF hist[c] = <<>> THEN AfterFetch(c, st, hasSig)
     ELSE AfterLoopFetch(c, st, hasSig)
  /\ UNCHANGED <<preparedTransactions, nextTxId, ph, consumed, requests>>
  /\ signed' = NoSignCall
  /\ UNCHANGED via
  /\ UNCHANGED <<poolVars, derCall, custody, sdkVars>>

\* the signing requests at the custody service reach their final status
CustodySettles ==
  /\ custody = "open"
  /\ custody' = "settled"
  /\ UNCHANGED <<poolVars, signVars, derCall, sdkVars>>

\* lines 229/238, 261-268: getTransaction rejected
GetTransactionRejects(c) ==
  /\ spc[c] = "fetching"
  /\ Throw(c, Raised(RawError("Network error")),
           InGetSignedTransaction(
             InWaitForSignature(RawError("Network error"))))
  /\ UNCHANGED <<preparedTransactions, nextTxId, ph, hist, consumed, requests>>
  /\ signed' = NoSignCall
  /\ UNCHANGED via
  /\ UNCHANGED <<poolVars, derCall, custody, sdkVars>>

\* a loop that sends the signing request again before it fetches the status
SleepEnds_Resubmits(c) ==
  /\ spc[c] = "sleeping"
  /\ spc' = [spc EXCEPT ![c] = "creating"]
  /\ UNCHANGED <<preparedTransactions, nextTxId, ph, hist, outcome, consumed,
                 requests>>
  /\ signed' = NoSignCall
  /\ result' = NoResults
  /\ UNCHANGED <<via, prepared, thrown, found>>
  /\ UNCHANGED <<poolVars, derCall, custody, sdkVars>>

\* lines 237-240: the polling interval has passed, the next fetch is awaited
SleepEnds(c) ==
  /\ spc[c] = "sleeping"
  /\ spc' = [spc EXCEPT ![c] = "fetching"]
  /\ UNCHANGED <<preparedTransactions, nextTxId, ph, hist, outcome, consumed,
                 requests>>
  /\ signed' = NoSignCall
  /\ result' = NoResults
  /\ UNCHANGED <<via, prepared, thrown, found>>
  /\ UNCHANGED <<poolVars, derCall, custody, sdkVars>>

\* placeholders a caller may pass: tokens returned by sign(), a token of an
\* identifier never issued, and hash tokens
Placeholders == {Token(pre, i) : pre \in {PreparedPrefix, HashPrefix},
                                 i \in TxIds}

\* transactions a caller may pass to sign(): without signature properties,
\* with a TxnSignature (empty or not), with a Signers array (empty or not),
\* and null
Unsigned == Tx({}, "", <<>>, "")
Transactions ==
  {Unsigned,
   Tx({"TxnSignature"}, "", <<>>, ""),
   Tx({"TxnSignature"}, "signature", <<>>, ""),
   Tx({"Signers"}, "", <<>>, ""),
   Tx({"Signers"}, "", <<Signer("rOther", "otherKey", "signature")>>, ""),
   NullTransaction}

\* values of the multisign argument
Multisigns == {"undefined", "false", "true", "", "rMultisigAddress"}

(***************************************************************************)
(* getNetworkParams, src/src/utils/utils.ts 178-212                        *)
(***************************************************************************)
\* a thrown value: an Error object of class `name`, or a value that is not
\* an Error (name "<string>")
Thrown(name, message) == [name |-> name, message |-> message]
NoThrown == Thrown("", "")

\* lines 184-187: the initial lastError
UnknownClientError == Thrown("ClientError", "Unknown client error occurred")

\* line 193: error instanceof Error ? error : new Error(String(error))
AsError(error) ==
  IF error.name = "<string>" THEN Thrown("Error", error.message) ELSE error

\* lines 209-211: the error thrown after the loop
RetriesExhausted(maxRetries, lastError) ==
  Thrown("Error", <<"Failed to get network parameters after", maxRetries,
                    "attempts:", lastError.message>>)

\* what getSequencesAndFee resolves with at its n-th call
NetworkParams(n) == [fee |-> "10", sequence |-> n, lastLedgerSequence |-> n + 20]
NoNetworkParams == [fee |-> "", sequence |-> 0, lastLedgerSequence |-> 0]

\* what getSequencesAndFee may reject with
Rejections ==
  {Thrown("ValidationError", "Valid address string is required"),
   Thrown("ClientError", "timeout"),
   Thrown("Error", "Failed to get network parameters: fail"),
   Thrown("<string>", "fail")}

NetCall(p, maxRetries, attempt, lastError, calls, failures, how, value, error) ==
  [pc |-> p, maxRetries |-> maxRetries, attempt |-> attempt,
   lastError |-> lastError, calls |-> calls, failures |-> failures,
   how |-> how, value |-> value, error |-> error]
NoNetCall ==
  NetCall("idle", 0, 0, NoThrown, 0, <<>>, "", NoNetworkParams, NoThrown)

\* lines 189-191, 209-211: the loop condition with counter `attempt`: the
\* next getSequencesAndFee is awaited, or the loop is over and the call throws
LoopHead(maxRetries, attempt, lastError, calls, failures) ==
  IF attempt <= maxRetries
  THEN net' = NetCall("attempting", maxRetries, attempt, lastError, calls + 1,
                      failures, "", NoNetworkParams, NoThrown)
  ELSE net' = NetCall("done", maxRetries, attempt, lastError, calls, failures,
                      "throws", NoNetworkParams,
                      RetriesExhausted(maxRetries, lastError))

\* lines 178-191: getNetworkParams(client, address, maxRetries) is called
GetNetworkParams(maxRetries) ==
  /\ net.pc \in {"idle", "done"}
  /\ LoopHead(maxRetries, 1, UnknownClientError, 0, <<>>)
  /\ UNCHANGED <<poolVars, signVars, derCall, custody, connected, op>>

\* line 191: getSequencesAndFee resolved: its value is returned
AttemptResolves ==
  /\ net.pc = "attempting"
  /\ net' = [net EXCEPT !.pc = "done", !.how = "returns",
                         !.value = NetworkParams(net.calls)]
  /\ UNCHANGED <<poolVars, signVars, derCall, custody, connected, op>>

\* a catch block that treats a ValidationError as any other error
AttemptRejects_RetriesValidation(error) ==
  /\ net.pc = "attempting"
  /\ IF net.attempt = net.maxRetries
     THEN net' = [net EXCEPT !.pc = "done", !.how = "throws",
                             !.lastError = AsError(error),
                             !.failures = Append(@, error),
                             !.error = RetriesExhausted(net.maxRetries,
                                                        AsError(error))]
     ELSE net' = [net EXCEPT !.pc = "waiting", !.lastError = AsError(error),
                             !.failures = Append(@, error)]
  /\ UNCHANGED <<poolVars, signVars, derCall, custody, connected, op>>

\* lines 192-205: getSequencesAndFee rejected with `error`
AttemptRejects(error) ==
  /\ net.pc = "attempting"
  /\ IF error.name = "ValidationError"
     THEN net' = [net EXCEPT !.pc = "done", !.how = "throws",
                             !.lastError = AsError(error),
                             !.failures = Append(@, error),
                             !.error = error]
     ELSE IF net.attempt = net.maxRetries
     THEN net' = [net EXCEPT !.pc = "done", !.how = "throws",
                             !.lastError = AsError(error),
                             !.failures = Append(@, error),
                             !.error = RetriesExhausted(net.maxRetries,
                                                        AsError(error))]
     ELSE net' = [net EXCEPT !.pc = "waiting", !.lastError = AsError(error),
                             !.failures = Append(@, error)]
  /\ UNCHANGED <<poolVars, signVars, derCall, custody, connected, op>>

\* lines 205, 189: the timer of the delay fires; attempt++ and the loop
\* condition
RetryDelayEnds ==
  /\ net.pc = "waiting"
  /\ LoopHead(net.maxRetries, net.attempt + 1, net.lastError, net.calls,
              net.failures)
  /\ UNCHANGED <<poolVars, signVars, derCall, custody, connected, op>>

(***************************************************************************)
(* The transaction methods of FireblocksXrpSdk (trustSet, tokenTransfer,   *)
(* ...: one try / catch / finally each), src/src/FireblocksXrpSdk.ts       *)
(***************************************************************************)
\* callers that run a method on the same sdk
Ops == {"o1", "o2"}

ValidationError(code) == [name |-> "ValidationError", code |-> code]

\* what signAsync resolves with for transaction tx: the { tx_blob, hash } of
\* getSignedTransaction for the entry that sign(tx, publicKey) stores
SignedTransaction(tx) ==
  LET entry == Entry(PreparedTx(tx, "undefined"), MultisignAddress("undefined"))
      encodedTx == Encode(FinalTx(entry, ToDER(SigR, SigS).out))
  IN [tx_blob |-> encodedTx, hash |-> HashSignedTx(encodedTx)]
NoSignedTransaction == [tx_blob |-> NoToken, hash |-> NoToken]

Operation(p, calls, signedTx, submitted, how, err) ==
  [pc |-> p, calls |-> calls, signedTx |-> signedTx, submitted |-> submitted,
   how |-> how, error |-> err]
NoOp == Operation("idle", <<>>, NoSignedTransaction, NoToken, "", NoError)

\* lines 441-444 and 718-723: the finally block: shutDown() disconnects the
\* client if it is connected, and the method then returns or throws what the
\* try or catch block has decided
Finally(o, how, err) ==
  IF connected
  THEN /\ connected' = FALSE
       /\ op' = [op EXCEPT ![o].pc = "disconnecting", ![o].how = how,
                            ![o].error = err]
  ELSE /\ UNCHANGED connected
       /\ op' = [op EXCEPT ![o].pc = "done", ![o].how = how, ![o].error = err]

\* lines 433-440: the catch block of the method: a ValidationError or a
\* SigningError is rethrown, any other error is wrapped in an Error
Catch(o, err) ==
  Finally(o, "throws",
          IF err.name \in {"ValidationError", "SigningError"} THEN err
          ELSE RawError("Error in trustSet"))

\* lines 402-411 and 702-704: the method is called; getClientParams awaits
\* client.connect()
TrustSet(o) ==
  /\ op[o].pc \in {"idle", "done"}
  /\ op' = [op EXCEPT ![o] = Operation("connecting", <<>>, NoSignedTransaction,
                                       NoToken, "", NoError)]
  /\ UNCHANGED connected
  /\ UNCHANGED <<poolVars, signVars, derCall, custody, net>>

\* lines 704-714: connect() has ended; getNetworkParams is awaited
ConnectEnds(o, ok) ==
  /\ op[o].pc = "connecting"
  /\ IF ok
     THEN /\ connected' = TRUE
          /\ op' = [op EXCEPT ![o].pc = "params"]
     ELSE Catch(o, RawError("connect failed"))
  /\ UNCHANGED <<poolVars, signVars, derCall, custody, net>>

\* lines 786-790: await this.client.autofill(transaction)
Autofill(o) ==
  op' = [op EXCEPT ![o].pc = "autofilling", ![o].calls = Append(@, "autofill")]

\* lines 410-431 and 782-790: getNetworkParams has ended; the transaction is
\* built (createTrustSetTx may throw a ValidationError) and signAndSubmitTx
\* begins: it connects if the client is not connected, then awaits autofill
GetClientParamsEnds(o, res) ==
  /\ op[o].pc = "params"
  /\ IF res = "rejects" THEN Catch(o, RawError("Failed to get network parameters"))
     ELSE IF res = "invalid" THEN Catch(o, ValidationError("InvalidAmount"))
     ELSE IF ~connected
     THEN /\ op' = [op EXCEPT ![o].pc = "reconnecting"]
          /\ UNCHANGED connected
     ELSE /\ Autofill(o)
          /\ UNCHANGED connected
  /\ UNCHANGED <<poolVars, signVars, derCall, custody, net>>

\* lines 783-785, 837-845: the connect() of signAndSubmitTx has ended; its
\* error is not a SigningError and is wrapped by the outer catch
ReconnectEnds(o, ok) ==
  /\ op[o].pc = "reconnecting"
  /\ IF ok
     THEN /\ connected' = TRUE
          /\ Autofill(o)
     ELSE Catch(o, SigningError("UnknownError"))
  /\ UNCHANGED <<poolVars, signVars, derCall, custody, net>>

\* lines 786-808: autofill has ended; signAsync is awaited
AutofillEnds(o, ok) ==
  /\ op[o].pc = "autofilling"
  /\ IF ok
     THEN /\ op' = [op EXCEPT ![o].pc = "signing",
                               ![o].calls = Append(@, "signAsync")]
          /\ UNCHANGED connected
     ELSE Catch(o, SigningError("AutofillFailed"))
  /\ UNCHANGED <<poolVars, signVars, derCall, custody, net>>

\* a signAndSubmitTx that submits the unsigned blob when signAsync has failed
SignAsyncEnds_SubmitsAnyway(o, ok) ==
  /\ op[o].pc = "signing"
  /\ op' = [op EXCEPT ![o].pc = "submitting",
                       ![o].signedTx = IF ok THEN SignedTransaction(Unsigned)
                                       ELSE NoSignedTransaction,
                       ![o].submitted = IF ok
                                        THEN SignedTransaction(Unsigned).tx_blob
                                        ELSE Encode(Unsigned),
                       ![o].calls = Append(@, "submitAndWait")]
  /\ UNCHANGED connected
  /\ UNCHANGED <<poolVars, signVars, derCall, custody, net>>

\* lines 798-820: signAsync has ended; submitAndWait(tx_blob) is awaited
SignAsyncEnds(o, ok) ==
  /\ op[o].pc = "signing"
  /\ IF ok
     THEN /\ op' = [op EXCEPT ![o].pc = "submitting",
                               ![o].signedTx = SignedTransaction(Unsigned),
                               ![o].submitted =
                                  SignedTransaction(Unsigned).tx_blob,
                               ![o].calls = Append(@, "submitAndWait")]
          /\ UNCHANGED connected
     ELSE Catch(o, SigningError("SignFailed"))
  /\ UNCHANGED <<poolVars, signVars, derCall, custody, net>>

\* lines 815-836: submitAndWait has ended
SubmitAndWaitEnds(o, res) ==
  /\ op[o].pc = "submitting"
  /\ IF res = "rejects" THEN Catch(o, SigningError("SubmitFailed"))
     ELSE IF res = "not validated" THEN Catch(o, SigningError("NotValidated"))
     ELSE Finally(o, "returns", NoError)
  /\ UNCHANGED <<poolVars, signVars, derCall, custody, net>>

\* lines 441-444, 718-723: disconnect() has ended; when it rejects, its
\* error leaves the finally block in place of the result or the error
DisconnectEnds(o, ok) ==
  /\ op[o].pc = "disconnecting"
  /\ op' = [op EXCEPT ![o].pc = "done",
                       ![o].how = IF ok THEN @ ELSE "throws",
                       ![o].error = IF ok THEN @ ELSE RawError("disconnect failed")]
  /\ UNCHANGED connected
  /\ UNCHANGED <<poolVars, signVars, derCall, custody, net>>

(***************************************************************************)
(* Initial state: the state after `new SdkManager(baseConfig, poolConfig)`  *)
(* and `new SigningService(fireblocks, wallet)`                            *)
(***************************************************************************)
Init ==
  /\ sdkPool = <<>>
  /\ nextSdk = 0
  /\ now = 0
  /\ pc = [t \in Tasks |-> "idle"]
  /\ vault = [t \in Tasks |-> NoKey]
  /\ item = [t \in Tasks |-> NoSdk]
  /\ oldestKey = [t \in Tasks |-> NoKey]
  /\ last = NoOutcome
  /\ cleanPc = "idle"
  /\ cleanKeys = <<>>
  /\ cleanSdk = NoSdk
  /\ cleanNow = 0
  /\ cleanupInterval = TRUE
  /\ shutPc = "idle"
  /\ shutSeen = {}
  /\ shutDowns = {}
  /\ interleaved = FALSE
  /\ metrics = SdkManagerMetrics(0, 0, 0, <<>>)
  /\ exec = [t \in Tasks |-> NoExec]
  /\ removed = [t \in Tasks |-> FALSE]
  /\ tornDown = {}
  /\ suspended = {}
  /\ preparedTransactions = [i \in TxIds |-> NoEntry]
  /\ nextTxId = 0
  /\ spc = [c \in Calls |-> "idle"]
  /\ ph = [c \in Calls |-> NoToken]
  /\ hist = [c \in Calls |-> <<>>]
  /\ outcome = [c \in Calls |-> ""]
  /\ consumed = [i \in TxIds |-> 0]
  /\ requests = [i \in TxIds |-> 0]
  /\ signed = NoSignCall
  /\ via = [c \in Calls |-> "getSignedTransaction"]
  /\ prepared = [c \in Calls |-> NoEntry]
  /\ thrown = [c \in Calls |-> NoError]
  /\ found = [c \in Calls |-> NoSeen]
  /\ result = [c \in Calls |-> NoResult]
  /\ derCall = NoDerCall
  /\ custody = "open"
  /\ net = NoNetCall
  /\ connected = FALSE
  /\ op = [o \in Ops |-> NoOp]

SignNext ==
  \/ \E m \in {"false", "true"} : Sign(Unsigned, m)
  \/ \E c \in Calls, p \in Placeholders : GetSignedTransaction(c, p)
  \/ \E c \in Calls, hasId \in BOOLEAN : CreateTransactionResolves(c, hasId)
  \/ \E c \in Calls : CreateTransactionRejects(c)
  \/ \E c \in Calls, st \in Statuses, hasSig \in BOOLEAN :
       GetTransactionResolves(c, st, hasSig)
  \/ \E c \in Calls : GetTransactionRejects(c)
  \/ \E c \in Calls : SleepEnds(c)

SpecSign == Init /\ [][SignNext]_vars

\* one caller using every entry point of the service, with every kind of
\* transaction and of multisign argument; the custody service answers with a
\* status that continues the polling, with completion or with a failure
CompleteNext ==
  \/ \E tx \in Transactions, m \in Multisigns : Sign(tx, m)
  \/ \E p \in Placeholders : GetSignedTransaction("c1", p)
  \/ \E tx \in Transactions, m \in Multisigns : SignAsync("c1", tx, m)
  \/ \E hasId \in BOOLEAN : CreateTransactionResolves("c1", hasId)
  \/ CreateTransactionRejects("c1")
  \/ \E st \in {Submitted, Completed, Failed}, hasSig \in BOOLEAN :
       GetTransactionResolves("c1", st, hasSig)
  \/ GetTransactionRejects("c1")
  \/ SleepEnds("c1")

SpecComplete == Init /\ [][CompleteNext]_vars

\* one caller polling a custody service without a bound on the number of
\* status fetches
PollNext ==
  \/ Sign(Unsigned, "false")
  \/ \E p \in Placeholders : GetSignedTransaction("c1", p)
  \/ \E hasId \in BOOLEAN : CreateTransactionResolves("c1", hasId)
  \/ \E st \in Statuses, hasSig \in BOOLEAN :
       PollFetchResolves("c1", st, hasSig)
  \/ GetTransactionRejects("c1")
  \/ SleepEnds("c1")
  \/ CustodySettles

\* a status fetch that is awaited settles
FetchSettles(c) ==
  \/ \E st \in Statuses, hasSig \in BOOLEAN : PollFetchResolves(c, st, hasSig)
  \/ GetTransactionRejects(c)

\* the timer of line 237 fires and the promise of getTransaction settles
SpecPoll ==
  /\ Init
  /\ [][PollNext]_vars
  /\ WF_vars(SleepEnds("c1"))
  /\ WF_vars(FetchSettles("c1"))

\* the encoder alone: one component ranges over the long arguments while the
\* other is short
DerNext ==
  \/ /\ derCall.calls = 0
     /\ \E rHex \in Arguments(MaxHexLen), sHex \in Arguments(2) :
          ToDERCall(rHex, sHex)
  \/ /\ derCall.calls = 0
     /\ \E rHex \in Arguments(2), sHex \in Arguments(MaxHexLen) :
          ToDERCall(rHex, sHex)
  \/ ToDERAgain

SpecDer == Init /\ [][DerNext]_vars

\* the network-parameter lookup alone
NetNext ==
  \/ \E maxRetries \in 0..MaxRetries : GetNetworkParams(maxRetries)
  \/ AttemptResolves
  \/ \E error \in Rejections : AttemptRejects(error)
  \/ RetryDelayEnds

SpecNet == Init /\ [][NetNext]_vars

\* two callers run transaction methods on one sdk
OpNext ==
  \/ \E o \in Ops : TrustSet(o)
  \/ \E o \in Ops, ok \in BOOLEAN : ConnectEnds(o, ok)
  \/ \E o \in Ops, res \in {"resolves", "rejects", "invalid"} :
       GetClientParamsEnds(o, res)
  \/ \E o \in Ops, ok \in BOOLEAN : ReconnectEnds(o, ok)
  \/ \E o \in Ops, ok \in BOOLEAN : AutofillEnds(o, ok)
  \/ \E o \in Ops, ok \in BOOLEAN : SignAsyncEnds(o, ok)
  \/ \E o \in Ops, res \in {"validated", "not validated", "rejects"} :
       SubmitAndWaitEnds(o, res)
  \/ \E o \in Ops, ok \in BOOLEAN : DisconnectEnds(o, ok)

SpecOp == Init /\ [][OpNext]_vars

(***************************************************************************)
(* Specifications of the pool                                              *)
(***************************************************************************)
\* the getSdk / releaseSdk calls of task set T
GetSdkNext(T) ==
  \/ \E t \in T, v \in Vaults : GetSdkReuse(t, v)
  \/ \E t \in T, v \in Vaults : GetSdkEvict(t, v)
  \/ \E t \in T, v \in Vaults : GetSdkFull(t, v)
  \/ \E t \in T, v \in Vaults : GetSdkCreate(t, v)
  \/ \E t \in T, v \in Vaults : GetSdkShared(t, v)
  \/ \E t \in T, v \in Vaults : GetSdkReconnect(t, v)
  \/ \E t \in T : EvictFinish(t)
  \/ \E t \in T : EvictThrow(t)
  \/ \E t \in T : GetSdkThrowFull(t)
  \/ \E t \in T : CreateFinish(t)
  \/ \E t \in T : ReconnectFinish(t)
  \/ \E v \in Vaults : ReleaseSdk(v)

\* concurrent callers of the pool
PoolNext ==
  \/ GetSdkNext(Tasks)
  \/ Tick(MaxTime)

SpecPool == Init /\ [][PoolNext]_vars

\* one caller of the pool and the periodic cleanup
CleanupNext ==
  \/ GetSdkNext({"t1"})
  \/ CleanupStart
  \/ CleanupFinish
  \/ CleanupCatch
  \/ Tick(MaxCleanupTime)

SpecCleanup == Init /\ [][CleanupNext]_vars

\* one caller of the pool, the periodic cleanup and one shutdown() call
ShutdownNext ==
  \/ GetSdkNext({"t1"})
  \/ CleanupStart
  \/ CleanupFinish
  \/ CleanupCatch
  \/ Shutdown
  \/ ShutdownResume
  \/ Tick(MaxCleanupTime)

SpecShutdown == Init /\ [][ShutdownNext]_vars

\* one caller of the pool and a reader of the metrics
MetricsNext ==
  \/ GetSdkNext({"t1"})
  \/ GetMetricsCall
  \/ Tick(MaxTime)

SpecMetrics == Init /\ [][MetricsNext]_vars

\* one caller of the pool, directly and through executeTransaction
ApiNext ==
  \/ GetSdkNext({"t1"})
  \/ \E v \in Vaults, ty \in TransactionTypes : ExecuteTransaction("t1", v, ty)
  \/ ExecAcquireFails("t1")
  \/ ExecDispatch("t1")
  \/ \E err \in {"", "Simulated failure"} : ExecOperationEnds("t1", err)
  \/ Tick(MaxTime)

SpecApi == Init /\ [][ApiNext]_vars

\* the getSdk call made at line 49 by the executeTransaction call of task t
ExecGetSdkReuse(t) ==
  exec[t].phase = "calling" /\ GetSdkReuse(t, exec[t].vault)
ExecGetSdkEvict(t) ==
  exec[t].phase = "calling" /\ GetSdkEvict(t, exec[t].vault)
ExecGetSdkFull(t) ==
  exec[t].phase = "calling" /\ GetSdkFull(t, exec[t].vault)
ExecGetSdkCreate(t) ==
  exec[t].phase = "calling" /\ GetSdkCreate(t, exec[t].vault)
ExecGetSdkShared(t) ==
  exec[t].phase = "calling" /\ GetSdkShared(t, exec[t].vault)
ExecGetSdkReconnect(t) ==
  exec[t].phase = "calling" /\ GetSdkReconnect(t, exec[t].vault)

\* concurrent executeTransaction calls and the periodic cleanup: every getSdk
\* and every releaseSdk is the one made by an executeTransaction call; the
\* first caller uses every account, the second caller one account
ShareNext ==
  \/ \E v \in Vaults : ExecuteTransaction("t1", v, "xrpTransfer")
  \/ ExecuteTransaction("t2", "v1", "xrpTransfer")
  \/ \E t \in Tasks : ExecGetSdkReuse(t)
  \/ \E t \in Tasks : ExecGetSdkEvict(t)
  \/ \E t \in Tasks : ExecGetSdkFull(t)
  \/ \E t \in Tasks : ExecGetSdkCreate(t)
  \/ \E t \in Tasks : ExecGetSdkShared(t)
  \/ \E t \in Tasks : ExecGetSdkReconnect(t)
  \/ \E t \in Tasks : EvictFinish(t)
  \/ \E t \in Tasks : EvictThrow(t)
  \/ \E t \in Tasks : GetSdkThrowFull(t)
  \/ \E t \in Tasks : CreateFinish(t)
  \/ \E t \in Tasks : ReconnectFinish(t)
  \/ \E t \in Tasks : ExecAcquireFails(t)
  \/ \E t \in Tasks : ExecDispatch(t)
  \/ \E t \in Tasks : ExecOperationEnds(t, "")
  \/ CleanupStart
  \/ CleanupFinish
  \/ CleanupCatch
  \/ Tick(MaxCleanupTime)

SpecShare == Init /\ [][ShareNext]_vars

(***************************************************************************)
(* Properties of the signing service                                       *)
(***************************************************************************)
\* calls that carry the blob token of identifier i and were not rejected by
\* the lookup
PassedLookup(i) ==
  {c \in Calls : /\ spc[c] # "idle"
                 /\ ph[c] = Token(PreparedPrefix, i)
                 /\ outcome[c] # "PlaceholderExpired"}

\* C1: a placeholder is consumed at most once under any interleaving: of the
\* getSignedTransaction calls carrying the placeholder of one identifier at
\* most one passes the lookup and creates a raw-signing request; every other
\* such call has failed with PlaceholderExpired.
C1_SingleUse ==
  \A i \in TxIds :
    /\ consumed[i] <= 1
    /\ requests[i] <= consumed[i]
    /\ Cardinality(PassedLookup(i)) <= 1

\* a call is at the custody service with a placeholder that a second call
\* was refused for
C1_Witness ==
  \E i \in TxIds, c, d \in Calls :
    /\ c # d
    /\ ph[c] = Token(PreparedPrefix, i) /\ ph[d] = ph[c]
    /\ spc[c] = "fetching" /\ requests[i] = 1
    /\ spc[d] = "done" /\ outcome[d] = "PlaceholderExpired"

\* C7: every fetched terminal-failure status, the first fetch included, ends
\* the call at once: it is the last status fetched and the call has failed
\* with SignatureRequestFailed.
C7_TerminalStatusEndsPolling ==
  \A c \in Calls : \A k \in 1..Len(hist[c]) :
    IsTerminalFailure(hist[c][k]) =>
      /\ k = Len(hist[c])
      /\ spc[c] = "done"
      /\ outcome[c] = "SignatureRequestFailed"

\* waitForSignature of call c has returned a response to getSignedTransaction
Returned(c) ==
  /\ spc[c] = "done"
  /\ outcome[c] \in {"Signed", "NoSignature", "SerializationError",
                     "SerializationValidationFailed"}

\* C8: waitForSignature returns the response of the first fetch whose status
\* is COMPLETED and fetches no more: a COMPLETED status is always the last one
\* fetched and makes the call return, a returned call has fetched COMPLETED
\* last, and the loop is left with SignatureRequestFailed only on a
\* terminal-failure status.
C8_ReturnsFirstCompleted ==
  \A c \in Calls :
    LET n == Len(hist[c]) IN
      /\ \A k \in 1..n : hist[c][k] = Completed => k = n /\ Returned(c)
      /\ Returned(c) => n >= 1 /\ hist[c][n] = Completed
      /\ (spc[c] = "done" /\ outcome[c] = "SignatureRequestFailed") =>
           n >= 1 /\ IsTerminalFailure(hist[c][n])

\* two non-terminal statuses, then COMPLETED: three fetches and a return
C8_Witness ==
  \E c \in Calls :
    /\ Returned(c)
    /\ hist[c] = <<Submitted, Submitted, Completed>>

(***************************************************************************)
(* Properties of the pool                                                  *)
(***************************************************************************)
AllInUse(pool) == \A i \in 1..Len(pool) : pool[i].isInUse

\* task t enters getSdk in this step and suspends
Suspends(t) == pc[t] = "idle" /\ pc'[t] # "idle"

\* C2: the pool never holds more than maxPoolSize entries.
C2_PoolWithinCapacity == Len(sdkPool) <= maxPoolSize

\* C3: no step removes an entry whose isInUse flag is true.
C3_InUseNeverRemoved ==
  [][\A v \in Vaults :
       (Has(sdkPool, v) /\ Get(sdkPool, v).isInUse) => Has(sdkPool', v)]_vars

\* C4: callers of one account share one handle: the sdk of a living entry is
\* never replaced, and every sdk returned by getSdk is the sdk of the entry
\* of the account asked for.
C4_OneHandlePerAccount ==
  [][/\ \A v \in Vaults :
          (Has(sdkPool, v) /\ Has(sdkPool', v)) =>
             Get(sdkPool', v).sdk = Get(sdkPool, v).sdk
     /\ last'.sdk # NoSdk =>
          /\ Has(sdkPool', last'.vault)
          /\ Get(sdkPool', last'.vault).sdk = last'.sdk]_vars

\* C5: when the pool holds maxPoolSize entries of which one is not in use, a
\* getSdk for an account without entry does not fail for capacity: it evicts.
C5_EvictsWhenIdleExists ==
  [][\A t \in Tasks :
       ( /\ Suspends(t)
         /\ ~Has(sdkPool, vault'[t])
         /\ Len(sdkPool) = maxPoolSize
         /\ ~AllInUse(sdkPool) ) => pc'[t] = "evicting"]_vars

\* C6: when the pool holds maxPoolSize entries, all in use, a getSdk for an
\* account without entry evicts and constructs nothing and leaves the pool as
\* it is, and it ends by throwing the capacity error, again leaving the pool
\* as it is.
C6_FullPoolFails ==
  [][\A t \in Tasks :
       /\ ( /\ Suspends(t)
            /\ ~Has(sdkPool, vault'[t])
            /\ Len(sdkPool) = maxPoolSize
            /\ AllInUse(sdkPool) ) =>
              /\ pc'[t] = "full"
              /\ sdkPool' = sdkPool
              /\ nextSdk' = nextSdk
       /\ (pc[t] = "full" /\ pc'[t] # "full") =>
              /\ last' = Outcome(vault[t], NoSdk, CapacityError, "full")
              /\ sdkPool' = sdkPool
              /\ nextSdk' = nextSdk]_vars

\* the capacity error has just been thrown while every entry is in use
C6_Witness ==
  /\ last.err = CapacityError
  /\ Len(sdkPool) = maxPoolSize
  /\ AllInUse(sdkPool)

\* a getSdk call for account v begins in this step
CallStarts(v) ==
  \E t \in Tasks :
    /\ pc[t] = "idle"
    /\ \/ pc'[t] # "idle" /\ vault'[t] = v
       \/ /\ pc' = pc
          /\ last' # NoOutcome /\ last'.how # "releaseSdk"
          /\ last'.vault = v

\* C9: a getSdk that begins while the account's entry is not in use returns
\* the sdk of that entry, constructs none and leaves the entry in use; the
\* sdk a creating getSdk returns is the one it stored; only a construction
\* changes the sdk of an entry; and a returned sdk is bound to the account it
\* was asked for, so that two accounts never get the same sdk.
C9_IdleEntryIsReused ==
  [][/\ \A v \in Vaults :
          (CallStarts(v) /\ Has(sdkPool, v) /\ ~Get(sdkPool, v).isInUse) =>
             /\ last' = Outcome(v, Get(sdkPool, v).sdk, "", "reuse")
             /\ nextSdk' = nextSdk
             /\ Has(sdkPool', v)
             /\ Get(sdkPool', v).sdk = Get(sdkPool, v).sdk
             /\ Get(sdkPool', v).isInUse
     /\ (last'.how = "create" /\ last'.err = "") =>
          /\ Has(sdkPool', last'.vault)
          /\ Get(sdkPool', last'.vault).sdk = last'.sdk
          /\ Get(sdkPool', last'.vault).isInUse
     /\ \A v \in Vaults :
          (Has(sdkPool, v) /\ Has(sdkPool', v) /\ nextSdk' = nextSdk) =>
             Get(sdkPool', v).sdk = Get(sdkPool, v).sdk
     /\ last'.sdk # NoSdk => last'.sdk.vaultAccountId = last'.vault]_vars

\* an idle entry has just been handed out again, and is in use
C9_Witness ==
  /\ last.how = "reuse"
  /\ Has(sdkPool, last.vault)
  /\ Get(sdkPool, last.vault).sdk = last.sdk
  /\ Get(sdkPool, last.vault).isInUse

\* C10: the step of an eviction that removes removes exactly one entry: the
\* one whose sdk was shut down, which is not in use and has the oldest
\* lastUsed of all entries not in use; every other entry is left untouched.
C10_EvictsOldestIdle ==
  [][\A t \in Tasks :
       (pc[t] = "evicting" /\ pc'[t] = "creating") =>
          /\ Has(sdkPool, oldestKey[t])
          /\ Get(sdkPool, oldestKey[t]).sdk = item[t]
          /\ ~Get(sdkPool, oldestKey[t]).isInUse
          /\ \A i \in 1..Len(sdkPool) :
               ~sdkPool[i].isInUse =>
                  Get(sdkPool, oldestKey[t]).lastUsed <= sdkPool[i].lastUsed
          /\ Len(sdkPool') = Len(sdkPool) - 1
          /\ sdkPool' = MapDelete(sdkPool, oldestKey[t])]_vars

(***************************************************************************)
(* Properties of the idle cleanup                                          *)
(***************************************************************************)
\* the cleanup pass removes an entry in this step
CleanupRemoves ==
  cleanPc = "shutting" /\ cleanKeys' # cleanKeys /\ sdkPool' # sdkPool

\* C11: a cleanup pass selects every entry that is not in use and whose idle
\* time at the scan exceeds idleTimeoutMs, and the entry it removes is, when
\* it is removed, not in use and idle for more than idleTimeoutMs at the time
\* of the scan; it removes that entry only.
C11_CleanupRemovesOnlyExpiredIdle ==
  [][/\ (cleanPc = "idle" /\ cleanPc' = "shutting") =>
          \A i \in 1..Len(sdkPool) :
             (~sdkPool[i].isInUse /\ now - sdkPool[i].lastUsed > idleTimeoutMs)
                => \E j \in 1..Len(cleanKeys') : cleanKeys'[j] = sdkPool[i].key
     /\ CleanupRemoves =>
          LET k == Head(cleanKeys) IN
            /\ Has(sdkPool, k)
            /\ ~Get(sdkPool, k).isInUse
            /\ cleanNow - Get(sdkPool, k).lastUsed > idleTimeoutMs
            /\ sdkPool' = MapDelete(sdkPool, k)]_vars

(***************************************************************************)
(* Properties of shutdown()                                                *)
(***************************************************************************)
\* shutdown() returns in this step, and no other operation of the pool was in
\* flight when it was called or ran while it was suspended
ShutdownEndsAlone == shutPc # "done" /\ shutPc' = "done" /\ ~interleaved'

\* C12: when shutdown() returns, having run with no other pool operation in
\* flight, the pool is empty and getMetrics reports 0 instances, shutDown()
\* has been called on the sdk of every entry, in use or not, and the cleanup
\* timer is cleared; once the timer is cleared it stays cleared and no
\* cleanup pass begins.
C12_ShutdownEmptiesPool ==
  [][/\ ShutdownEndsAlone =>
          /\ sdkPool' = <<>>
          /\ GetMetrics(sdkPool').totalInstances = 0
          /\ \A i \in 1..Len(sdkPool) : sdkPool[i].sdk.id \in shutDowns'
          /\ ~cleanupInterval'
     /\ ~cleanupInterval =>
          /\ ~cleanupInterval'
          /\ cleanPc = "idle" => (cleanPc' = "idle" /\ cleanNow' = cleanNow)]_vars

\* shutdown() has returned after tearing down a full pool on its own
C12_Witness ==
  /\ shutPc = "done" /\ ~interleaved
  /\ Cardinality(shutDowns) = maxPoolSize
  /\ sdkPool = <<>>
  /\ ~cleanupInterval

(***************************************************************************)
(* Properties of getMetrics()                                              *)
(***************************************************************************)
\* the metrics m describe the pool
Describes(m, pool) ==
  /\ m.totalInstances = Len(pool)
  /\ m.totalInstances = m.activeInstances + m.idleInstances
  /\ m.activeInstances = Cardinality({i \in 1..Len(pool) : pool[i].isInUse})
  /\ DOMAIN m.instancesByVaultAccount = Keys(pool)
  /\ \A k \in Keys(pool) : m.instancesByVaultAccount[k] = Get(pool, k).isInUse

\* C20: in every state the result of getMetrics has totalInstances = number
\* of entries = activeInstances + idleInstances and maps exactly the accounts
\* with an entry to their isInUse flag; and a getMetrics call returns the
\* metrics of the pool it was called on and changes nothing of the pool.
C20_MetricsDescribePool ==
  [][/\ Describes(GetMetrics(sdkPool'), sdkPool')
     /\ metrics' # metrics =>
          /\ metrics' = GetMetrics(sdkPool)
          /\ Describes(metrics', sdkPool')
          /\ UNCHANGED <<sdkPool, nextSdk, pc, vault, item, oldestKey,
                         cleanVars, shutVars, shutSeen>>]_vars

\* the metrics read from a pool with an entry in use and an idle entry
C20_Witness ==
  /\ metrics = GetMetrics(sdkPool)
  /\ metrics.totalInstances = 2
  /\ metrics.activeInstances = 1
  /\ metrics.idleInstances = 1

(***************************************************************************)
(* Properties of executeTransaction                                        *)
(***************************************************************************)
\* the executeTransaction call of task t ends in this step
ExecEnds(t) == exec[t].phase # "done" /\ exec'[t].phase = "done"

\* the entry of account v, if there is one, has just been released
JustReleased(v) ==
  Has(sdkPool, v) =>
    /\ Has(sdkPool', v)
    /\ ~Get(sdkPool', v).isInUse
    /\ Get(sdkPool', v).lastUsed = now

\* C14: an executeTransaction call releases nothing before it ends; when its
\* getSdk was rejected it ends without a release, leaving the pool as it is,
\* and throws the error of getSdk; when its getSdk resolved it ends with
\* exactly one release, of its own account, whether the method returned,
\* the method threw or the type had no case, and what it throws is the
\* error that was raised.
C14_ReleasesExactlyOnce ==
  [][\A t \in Tasks :
       /\ ~ExecEnds(t) =>
            (exec'[t].releases = exec[t].releases \/ exec'[t].releases = 0)
       /\ exec[t].phase \in {"calling", "acquiring", "acquired", "failed",
                              "running"} => exec[t].releases = 0
       /\ (ExecEnds(t) /\ exec[t].phase = "failed") =>
            /\ exec'[t].releases = 0
            /\ sdkPool' = sdkPool
            /\ exec[t].raised # ""
            /\ exec'[t].error = exec[t].raised
       /\ (ExecEnds(t) /\ exec[t].phase \in {"acquired", "running"}) =>
            /\ exec'[t].releases = 1
            /\ JustReleased(exec[t].vault)
            /\ exec'[t].error = exec'[t].raised
            /\ exec[t].type \notin Handled => exec'[t].error = "InvalidType"
       /\ ExecEnds(t) => exec[t].phase \in {"failed", "acquired", "running"}]_vars

\* a call whose method threw has ended with one release and that error
C14_Witness ==
  \E t \in Tasks :
    /\ exec[t].phase = "done"
    /\ exec[t].releases = 1
    /\ exec[t].error = "Simulated failure"
    /\ Has(sdkPool, exec[t].vault)
    /\ ~Get(sdkPool, exec[t].vault).isInUse

(***************************************************************************)
(* Properties of the signing service: sign, getSignedTransaction,          *)
(* signAsync                                                               *)
(***************************************************************************)
\* the transaction has a TxnSignature or a Signers property
CarriesSignature(tx) ==
  tx # NullTransaction /\ tx.fields \cap {"TxnSignature", "Signers"} # {}

\* C13: a sign() call on a transaction that has a TxnSignature property or a
\* Signers property throws AlreadySigned, returns no placeholder, issues no
\* identifier and adds no entry to preparedTransactions.
C13_SignedInputIsRefused ==
  [][(signed' # NoSignCall /\ CarriesSignature(signed'.transaction)) =>
       /\ signed'.error = SigningError("AlreadySigned")
       /\ signed'.tx_blob = NoToken
       /\ signed'.hash = NoToken
       /\ nextTxId' = nextTxId
       /\ preparedTransactions' = preparedTransactions]_vars

\* the multisign argument asks for multisigning
MultisignEnabled(multisign) ==
  multisign \notin {"undefined", "false", ""}

\* the signature of the custody service, r = 1234 and s = 5678, DER-encoded:
\* "30080202123402025678"
EncodedSignature ==
  <<"3", "0", "0", "8", "0", "2", "0", "2", "1", "2", "3", "4",
    "0", "2", "0", "2", "5", "6", "7", "8">>

\* the entry a successful sign() call of this step has stored
StoredEntry ==
  IF preparedTransactions'[signed'.tx_blob.id] # NoEntry
  THEN preparedTransactions'[signed'.tx_blob.id]
  ELSE prepared'["c1"]

\* C15: sign() fixes the mode in the entry it stores: no signature
\* properties, and with multisign disabled the supplied public key as
\* SigningPubKey, with multisign enabled an empty SigningPubKey and the
\* signing account (the address given, else the wallet's own address).  The
\* transaction getSignedTransaction returns is determined by that entry:
\* disabled, it has the encoded signature in TxnSignature, the supplied key
\* and no Signers; enabled, it has an empty SigningPubKey, no TxnSignature
\* and one Signer with that account, the wallet's public key and the encoded
\* signature.
C15_FinalTxFollowsMode ==
  [][/\ (signed' # NoSignCall /\ signed'.error = NoError) =>
          LET e == StoredEntry
              m == signed'.multisign
          IN /\ e # NoEntry
             /\ e.tx.fields \cap {"TxnSignature", "Signers"} = {}
             /\ "SigningPubKey" \in e.tx.fields
             /\ IsMultisign(e.multisignAddress) = MultisignEnabled(m)
             /\ MultisignEnabled(m) =>
                  /\ e.tx.SigningPubKey = ""
                  /\ e.multisignAddress =
                       IF m = "true" THEN ClassicAddress ELSE m
             /\ ~MultisignEnabled(m) => e.tx.SigningPubKey = PublicKey
     /\ \A c \in Calls :
          result'[c] # NoResult =>
            LET e == prepared[c]
                f == result'[c].tx_blob.encoded
            IN /\ e # NoEntry
               /\ "SigningPubKey" \in f.fields
               /\ IF IsMultisign(e.multisignAddress)
                  THEN /\ f.SigningPubKey = ""
                       /\ "TxnSignature" \notin f.fields
                       /\ "Signers" \in f.fields
                       /\ f.Signers = <<Signer(e.multisignAddress,
                                              WalletPublicKey,
                                              EncodedSignature)>>
                  ELSE /\ f.SigningPubKey = PublicKey
                       /\ "TxnSignature" \in f.fields
                       /\ f.TxnSignature = EncodedSignature
                       /\ "Signers" \notin f.fields]_vars

\* a transaction prepared with an explicit multisign address has been
\* returned with its one Signer
C15_Witness ==
  /\ result["c1"] # NoResult
  /\ "Signers" \in result["c1"].tx_blob.encoded.fields
  /\ result["c1"].tx_blob.encoded.Signers[1].Account = "rMultisigAddress"

\* C16: getSignedTransaction called with a token that does not start with
\* the placeholder prefix throws InvalidPlaceholder at once: it returns
\* nothing, removes no entry of preparedTransactions and sends no request
\* to the custody service.
C16_ForeignTokenIsRefused ==
  [][(/\ spc["c1"] \in {"idle", "done"}
      /\ signed' = NoSignCall
      /\ via'["c1"] = "getSignedTransaction"
      /\ ph'["c1"].prefix # PreparedPrefix) =>
       /\ spc'["c1"] = "done"
       /\ outcome'["c1"] = "InvalidPlaceholder"
       /\ thrown'["c1"] = SigningError("InvalidPlaceholder")
       /\ result'["c1"] = NoResult
       /\ preparedTransactions' = preparedTransactions
       /\ consumed' = consumed
       /\ requests' = requests]_vars

\* the hash token of a stored transaction has been refused
C16_Witness ==
  /\ spc["c1"] = "done"
  /\ outcome["c1"] = "InvalidPlaceholder"
  /\ ph["c1"].prefix = HashPrefix
  /\ preparedTransactions[ph["c1"].id] # NoEntry

\* C17: a call whose response was COMPLETED without a signature in its first
\* signed message has thrown NoSignature and returned nothing.
C17_NoSignatureFails ==
  \A c \in Calls :
    found[c].signature = "absent" =>
      /\ spc[c] = "done"
      /\ hist[c] # <<>>
      /\ hist[c][Len(hist[c])] = Completed
      /\ outcome[c] = "NoSignature"
      /\ thrown[c] = SigningError("NoSignature")
      /\ result[c] = NoResult

\* a signAsync call has ended on a response without signature
C17_Witness ==
  /\ found["c1"].signature = "absent"
  /\ via["c1"] = "signAsync"
  /\ spc["c1"] = "done"

\* C18: a returned tx_blob is an encoded transaction, not a token, and its
\* decoding has a TxnSignature or a Signers property; a call whose decoded
\* final blob lacked both has returned nothing and thrown the
\* SerializationValidationFailed error.
C18_ReturnedBlobIsSigned ==
  \A c \in Calls :
    /\ result[c] # NoResult =>
         /\ DOMAIN result[c].tx_blob = {"encoded"}
         /\ LET decoded == Decode(result[c].tx_blob, found[c].codec)
            IN HasTxnSignature(decoded) \/ HasSigners(decoded)
    /\ found[c].codec = "lossy" =>
         /\ spc[c] = "done"
         /\ result[c] = NoResult
         /\ thrown[c] = SigningError("SerializationValidationFailed")

\* the error a raw exception becomes at the nearest catch block
Normalized(c, raw) ==
  IF raw = RawError("Network error") THEN "WaitForSignatureFailed"
  ELSE IF raw = RawError("Request failed") THEN "GetSignedTransactionFailed"
  ELSE IF raw = RawError("decode failed") THEN "SerializationValidationFailed"
  ELSE "SignFailed"

\* C19: what sign, getSignedTransaction (with waitForSignature inside it)
\* and signAsync throw is a SigningError: a SigningError that was raised
\* inside is thrown as it was raised, and any other exception is replaced by
\* the SigningError of the catch block nearest to where it was raised.
C19_FailuresAreSigningErrors ==
  /\ signed.error # NoError =>
       /\ signed.error.name = "SigningError"
       /\ signed.raised.name = "SigningError" => signed.error = signed.raised
       /\ signed.raised.name # "SigningError" =>
            signed.error = SigningError("SignFailed")
  /\ \A c \in Calls :
       /\ (spc[c] = "done" /\ outcome[c] = "Signed") => thrown[c] = NoError
       /\ (spc[c] = "done" /\ outcome[c] # "Signed") =>
            /\ thrown[c].name = "SigningError"
            /\ thrown[c].code = outcome[c]
            /\ found[c].raised # NoError
            /\ found[c].raised.name = "SigningError" =>
                 thrown[c] = found[c].raised
            /\ found[c].raised.name # "SigningError" =>
                 thrown[c] = SigningError(Normalized(c, found[c].raised))

\* a transport error while polling, inside a signAsync call, has reached the
\* caller as a SigningError
C19_Witness ==
  /\ via["c1"] = "signAsync"
  /\ spc["c1"] = "done"
  /\ found["c1"].raised = RawError("Network error")
  /\ thrown["c1"] = SigningError("WaitForSignatureFailed")

(***************************************************************************)
(* Properties of releaseSdk                                                *)
(***************************************************************************)
\* C21: a releaseSdk(v) call leaves the pool as it was when v has no entry;
\* otherwise it sets isInUse of v's entry to false and its lastUsed to the
\* present time, and leaves the sdk of that entry, the number and order of
\* the entries and every other entry as they were; it constructs no sdk and
\* moves no getSdk call.
C21_ReleaseTouchesOneEntry ==
  [][\A v \in Vaults :
       last' = Outcome(v, NoSdk, "", "releaseSdk") =>
         /\ IF Has(sdkPool, v)
            THEN /\ Len(sdkPool') = Len(sdkPool)
                 /\ \A i \in 1..Len(sdkPool) :
                      sdkPool'[i] =
                        IF sdkPool[i].key = v
                        THEN PoolItem(v, sdkPool[i].sdk, now, FALSE)
                        ELSE sdkPool[i]
            ELSE sdkPool' = sdkPool
         /\ UNCHANGED <<nextSdk, now, pc, vault, item, oldestKey>>]_vars

\* an entry that was in use and stamped earlier has been released, next to
\* another account's entry that is in use
C21_Witness ==
  /\ last.how = "releaseSdk"
  /\ Has(sdkPool, last.vault)
  /\ Get(sdkPool, last.vault) =
       PoolItem(last.vault, Get(sdkPool, last.vault).sdk, 1, FALSE)
  /\ \E i \in 1..Len(sdkPool) :
       sdkPool[i].key # last.vault /\ sdkPool[i].isInUse

(***************************************************************************)
(* Properties of toDER                                                     *)
(***************************************************************************)
\* a hex string: an even, non-zero number of hex digits
WellFormed(h) ==
  /\ h.type = "string"
  /\ Len(h.chars) > 0
  /\ Len(h.chars) % 2 = 0
  /\ \A i \in 1..Len(h.chars) : IsHexDigit(h.chars[i])

\* the unsigned integer a byte sequence is, most significant byte first
RECURSIVE Value(_)
Value(bytes) ==
  IF bytes = <<>> THEN 0
  ELSE 256 * Value(SubSeq(bytes, 1, Len(bytes) - 1)) + bytes[Len(bytes)]

\* an encoding read as a sequence (tag 0x30) of two length-prefixed integers
\* (tag 0x02), all lengths in one byte
ParseDer(bytes) ==
  LET n == Len(bytes)
      lr == IF n >= 4 THEN bytes[4] ELSE 0
      ls == IF n >= 6 + lr THEN bytes[6 + lr] ELSE 0
      ok == /\ n >= 6
            /\ bytes[1] = 48 /\ bytes[2] = n - 2
            /\ bytes[3] = 2
            /\ n >= 6 + lr
            /\ bytes[5 + lr] = 2
            /\ n = 6 + lr + ls
  IN [ok |-> ok,
      r |-> IF ok THEN SubSeq(bytes, 5, 4 + lr) ELSE <<>>,
      s |-> IF ok THEN SubSeq(bytes, 7 + lr, n) ELSE <<>>]

\* the string toDER returned, parsed
Parsed == ParseDer(FromHex(derCall.result.out))

Minimal(c, bytes) ==
  /\ c # <<>>
  /\ c[1] < 128
  /\ (Len(c) >= 2 /\ c[1] = 0) => c[2] >= 128
  /\ (bytes # <<>> /\ bytes[1] >= 128) => c = <<0>> \o bytes

\* C23: whatever the arguments are, in the string toDER returns each of the
\* two integers is non-empty, starts with a byte below 0x80 (a zero byte is
\* put in front of an argument that starts with a byte of 0x80 or more), and
\* a zero byte in front of further bytes is followed by a byte of 0x80 or
\* more.
C23_ComponentsAreMinimal ==
  (derCall.calls >= 1 /\ derCall.result.how = "returns") =>
     /\ Parsed.ok
     /\ Minimal(Parsed.r, FromHex(derCall.rHex.chars))
     /\ Minimal(Parsed.s, FromHex(derCall.sHex.chars))

\* the argument is no hex string: missing, empty, of odd length, or with a
\* character that is no hex digit
Malformed(h) == ~WellFormed(h)

\* C24: a toDER call with a malformed argument throws the SigningError
\* DEREncodingFailed; it returns nothing.
C24_MalformedHexIsRefused ==
  (derCall.calls >= 1 /\ (Malformed(derCall.rHex) \/ Malformed(derCall.sHex)))
    => derCall.result =
         DerResult("throws", <<>>, SigningError("DEREncodingFailed"))

(***************************************************************************)
(* Properties of the prepared entries and of error propagation             *)
(***************************************************************************)
\* call c, which holds the entry of identifier i, ends in this step by
\* throwing
FailsHolding(c, i) ==
  /\ spc[c] \in {"creating", "fetching", "sleeping"}
  /\ ph[c].id = i
  /\ spc'[c] = "done"
  /\ outcome'[c] # "Signed"

\* C25: an entry leaves preparedTransactions only in the step in which a
\* getSignedTransaction call with its placeholder passes the lookup, for the
\* first time for that identifier: no sign() call, no call with another or a
\* foreign token and no other step removes it; and a getSignedTransaction
\* call that ends by throwing leaves the entry of its placeholder in the map.
C25_EntryRemovedOnlyBySuccess ==
  [][\A i \in TxIds :
       /\ (preparedTransactions[i] # NoEntry
             /\ preparedTransactions'[i] = NoEntry) =>
            /\ consumed[i] = 0 /\ consumed'[i] = 1
            /\ \E c \in Calls :
                 /\ spc[c] \in {"idle", "done"}
                 /\ spc'[c] = "creating"
                 /\ ph'[c] = Token(PreparedPrefix, i)
       /\ \A c \in Calls :
            FailsHolding(c, i) => preparedTransactions'[i] # NoEntry]_vars

\* C26, for getSdk: a getSdk call in which a collaborator call has failed
\* (shutDown() of the instance to evict, the construction of the sdk,
\* client.connect() of an entry in use) ends by throwing an error and
\* returns no sdk.
C26_NoFailureIsSwallowed ==
  [][(\/ last'.how = "reconnect failed"
      \/ last'.how \in {"evict", "create"} /\ last'.sdk = NoSdk) =>
       /\ last'.err # ""
       /\ last'.sdk = NoSdk]_vars

(***************************************************************************)
(* Properties of the polling loop                                          *)
(***************************************************************************)
\* call c is inside waitForSignature
Polling(c) == spc[c] \in {"fetching", "sleeping"}

C28_NoRetry ==
  [][/\ \A i \in TxIds :
          requests'[i] # requests[i] =>
            /\ requests[i] = 0 /\ requests'[i] = 1
            /\ \E c \in Calls :
                 /\ spc[c] = "creating"
                 /\ ph[c] = Token(PreparedPrefix, i)
                 /\ spc'[c] \in {"fetching", "done"}
     /\ \A c \in Calls :
          /\ (spc[c] # "creating" /\ spc'[c] = "creating") =>
               /\ spc[c] \in {"idle", "done"}
               /\ consumed[ph'[c].id] = 0
               /\ consumed'[ph'[c].id] = 1
          /\ spc[c] = "creating" =>
               spc'[c] \in {"creating", "fetching", "done"}
          /\ spc[c] \in {"fetching", "sleeping"} =>
               spc'[c] \in {"fetching", "sleeping", "done"}]_vars

\* a call has failed while polling, after its one request was created
C28_Witness ==
  \E c \in Calls :
    /\ spc[c] = "done"
    /\ outcome[c] = "WaitForSignatureFailed"
    /\ ph[c].prefix = PreparedPrefix
    /\ requests[ph[c].id] = 1
    /\ consumed[ph[c].id] = 1

\* the call that holds the entry of identifier i
Holders(st, cur, i) ==
  {c \in Calls : /\ cur[c] = Token(PreparedPrefix, i)
                 /\ st[c] \in {"creating", "fetching", "sleeping"}}

\* the phase of the transaction of identifier i in the state with map `map`,
\* `issued` identifiers, call positions st and call tokens cur
Phase(map, issued, st, cur, i) ==
  IF i > issued THEN "CLEAN"
  ELSE IF map[i] # NoEntry THEN "PREPARED"
  ELSE IF \E c \in Holders(st, cur, i) : st[c] = "creating"
  THEN "SUBMITTED_TO_CUSTODY"
  ELSE IF Holders(st, cur, i) # {} THEN "POLLING"
  ELSE "ENDED"

PhaseNow(i) == Phase(preparedTransactions, nextTxId, spc, ph, i)
PhaseNext(i) == Phase(preparedTransactions', nextTxId', spc', ph', i)

\* C29: the transaction of an identifier changes phase only from CLEAN to
\* PREPARED (sign stores the entry), from PREPARED to SUBMITTED_TO_CUSTODY
\* (a call takes the entry and awaits createTransaction), from there to
\* POLLING when the request was created, and from SUBMITTED_TO_CUSTODY or
\* POLLING to its end, where the call either returns a SignedTransaction or
\* throws a SigningError; a status is fetched only in POLLING, after the
\* request was created; a SignedTransaction is returned only after a
\* COMPLETED status; and after the end no request is created and no status
\* is fetched for it.
C29_ProtocolOrder ==
  [][\A i \in TxIds :
       /\ PhaseNext(i) # PhaseNow(i) =>
            <<PhaseNow(i), PhaseNext(i)>> \in
              {<<"CLEAN", "PREPARED">>,
               <<"PREPARED", "SUBMITTED_TO_CUSTODY">>,
               <<"SUBMITTED_TO_CUSTODY", "POLLING">>,
               <<"SUBMITTED_TO_CUSTODY", "ENDED">>,
               <<"POLLING", "ENDED">>}
       /\ \A c \in Holders(spc, ph, i) :
            /\ hist'[c] # hist[c] =>
                 /\ PhaseNow(i) = "POLLING"
                 /\ requests[i] = 1
            /\ spc'[c] = "done" =>
                 /\ PhaseNext(i) = "ENDED"
                 /\ \/ /\ outcome'[c] = "Signed"
                       /\ result'[c] # NoResult
                       /\ thrown'[c] = NoError
                       /\ hist'[c] # <<>>
                       /\ hist'[c][Len(hist'[c])] = Completed
                    \/ /\ outcome'[c] # "Signed"
                       /\ result'[c] = NoResult
                       /\ thrown'[c].name = "SigningError"
       /\ (PhaseNow(i) = "PREPARED" /\ PhaseNext(i) = "SUBMITTED_TO_CUSTODY")
            => requests[i] = 0
       /\ (PhaseNow(i) = "SUBMITTED_TO_CUSTODY" /\ PhaseNext(i) = "POLLING")
            => requests'[i] = 1
       /\ PhaseNow(i) \in {"CLEAN", "PREPARED", "ENDED"} =>
            /\ requests'[i] = requests[i]
            /\ \A c \in Calls :
                 (ph[c] = Token(PreparedPrefix, i) /\ ph'[c] = ph[c]) =>
                   hist'[c] = hist[c] \/ hist'[c] = <<>>]_vars

\* a transaction has gone through every phase and its call has returned,
\* while the other caller's transaction is being polled
C29_Witness ==
  \E c, d \in Calls :
    /\ c # d
    /\ spc[c] = "done" /\ outcome[c] = "Signed"
    /\ PhaseNow(ph[c].id) = "ENDED"
    /\ ph[d].prefix = PreparedPrefix
    /\ PhaseNow(ph[d].id) = "POLLING"

\* C30: a sign() call is over within the step it is made in, with its
\* placeholder or its error; it creates no signing request, fetches no status
\* and moves no getSignedTransaction call.  When it returns, exactly one
\* entry has been added to preparedTransactions, every other entry is as it
\* was, the blob token and the hash token carry the key of the new entry
\* under their two prefixes, and the transaction passed in is as it was
\* passed (the SigningPubKey is set on the stored copy).  When it throws,
\* the map is as it was.
C30_SignOnlyAddsOneEntry ==
  [][(signed' # NoSignCall /\ signed'.by = "sign") =>
       /\ UNCHANGED <<spc, ph, hist, outcome, consumed, requests, via,
                      prepared, thrown, found>>
       /\ (signed'.error = NoError) # (signed'.tx_blob = NoToken)
       /\ signed'.error # NoError =>
            UNCHANGED <<preparedTransactions, nextTxId>>
       /\ signed'.error = NoError =>
            LET id == signed'.tx_blob.id IN
              /\ signed'.tx_blob = Token(PreparedPrefix, id)
              /\ signed'.hash = Token(HashPrefix, id)
              /\ signed'.tx_blob # signed'.hash
              /\ id \in TxIds
              /\ preparedTransactions[id] = NoEntry
              /\ preparedTransactions'[id] # NoEntry
              /\ \A j \in TxIds \ {id} :
                   preparedTransactions'[j] = preparedTransactions[j]
              /\ "SigningPubKey" \notin signed'.transaction.fields
              /\ "SigningPubKey" \in preparedTransactions'[id].tx.fields]_vars

\* a second transaction has been prepared, for multisigning, by a direct call
\* of sign() made while the call that finalises the first one is polling
C30_Witness ==
  /\ signed.error = NoError
  /\ signed.by = "sign"
  /\ signed.tx_blob = Token(PreparedPrefix, 2)
  /\ signed.multisign = "rMultisigAddress"
  /\ preparedTransactions[2] # NoEntry
  /\ ph["c1"] = Token(PreparedPrefix, 1)
  /\ spc["c1"] = "fetching"

(***************************************************************************)
(* Properties of a failing handle creation                                 *)
(***************************************************************************)
\* the getSdk call of task t ends in this step, with createSdkInstance
\* having thrown
CreationFails(t) ==
  /\ pc[t] = "creating" /\ pc'[t] = "idle"
  /\ last'.vault = vault[t] /\ last'.how = "create" /\ last'.err # ""

\* C31: a getSdk call whose createSdkInstance fails throws SdkCreationFailed
\* and has changed nothing in the pool: the failing step inserts and removes
\* nothing, and the call has not evicted an entry before it.
C31_FailedCreationLeavesPool ==
  [][\A t \in Tasks :
       CreationFails(t) =>
         /\ last'.err = "SdkCreationFailed"
         /\ last'.sdk = NoSdk
         /\ sdkPool' = sdkPool
         /\ ~removed[t]]_vars

(***************************************************************************)
(* Properties of the network-parameter lookup                              *)
(***************************************************************************)
\* the failures met by the call so far hold no ValidationError, except
\* possibly the latest
RetriedOnlyOthers(failures) ==
  \A i \in 1..(Len(failures) - 1) : failures[i].name # "ValidationError"

\* C32: getNetworkParams calls getSequencesAndFee at most maxRetries times;
\* it returns the value of the first call that resolved, having made no
\* call after it; a ValidationError ends it at once and is thrown as it is;
\* when maxRetries calls have failed it throws an error that names
\* maxRetries and the message of the last failure.
C32_BoundedRetry ==
  /\ net.calls <= net.maxRetries
  /\ net.calls \in {Len(net.failures), Len(net.failures) + 1}
  /\ RetriedOnlyOthers(net.failures)
  /\ net.pc = "attempting" => net.calls = Len(net.failures) + 1
  /\ (net.pc = "done" /\ net.how = "returns") =>
       /\ net.calls = Len(net.failures) + 1
       /\ net.value = NetworkParams(net.calls)
       /\ \A i \in 1..Len(net.failures) :
            net.failures[i].name # "ValidationError"
  /\ (net.pc = "done" /\ net.how = "throws") =>
       /\ net.calls = Len(net.failures)
       /\ IF /\ net.failures # <<>>
             /\ net.failures[Len(net.failures)].name = "ValidationError"
          THEN net.error = net.failures[Len(net.failures)]
          ELSE /\ net.calls = net.maxRetries
               /\ net.error.name = "Error"
               /\ net.error.message[2] = net.maxRetries
               /\ net.error.message[4] =
                    IF net.failures = <<>>
                    THEN UnknownClientError.message
                    ELSE net.failures[Len(net.failures)].message

\* a call with maxRetries 3 has failed after three attempts, the last of
\* which threw a value that is not an Error
C32_Witness ==
  /\ net.pc = "done" /\ net.how = "throws"
  /\ net.maxRetries = 3
  /\ Len(net.failures) = 3
  /\ net.failures[3].name = "<string>"

(***************************************************************************)
(* Properties of shared handles                                            *)
(***************************************************************************)
\* task t holds an sdk: getSdk has returned it to the executeTransaction call
\* of t, which has not called releaseSdk yet
Holds(t) == exec[t].phase \in {"acquired", "running"}

\* shutDown() of sdk h is called in this step by removeOldestIdleSdk
\* (line 163) or by cleanupIdleSdks (line 190)
TearsDown(h) ==
  \/ \E t \in Tasks :
       pc[t] # "evicting" /\ pc'[t] = "evicting" /\ item'[t] = h
  \/ cleanPc' = "shutting" /\ cleanKeys' # cleanKeys /\ cleanSdk' = h

\* C33: neither the eviction nor the cleanup calls shutDown() on an sdk that
\* a caller holds, whatever the other callers of that sdk have done.
C33_HeldHandleNotTornDown ==
  [][\A t \in Tasks : Holds(t) => ~TearsDown(exec[t].sdk)]_vars

(***************************************************************************)
(* Properties of the handles the pool has constructed                      *)
(***************************************************************************)
\* ids of the sdks of the entries of the pool
Pooled(pool) == {pool[i].sdk.id : i \in 1..Len(pool)}

\* C34: every sdk the pool has constructed is the sdk of an entry of the
\* pool or has had its shutDown() called by the pool.
C34_NoHandleLeaks ==
  \A id \in 1..nextSdk : id \in Pooled(sdkPool) \/ id \in tornDown

(***************************************************************************)
(* Properties of the pool after shutdown()                                 *)
(***************************************************************************)
\* C37: when shutdown() returns the pool is empty, and afterwards no step of
\* a getSdk call that was suspended at that moment changes the pool, and no
\* step of the cleanup pass that was suspended then adds an entry: only a
\* getSdk call made after the return fills the pool again.
C37_PoolStaysEmptyAfterShutdown ==
  [][/\ (shutPc # "done" /\ shutPc' = "done") => sdkPool' = <<>>
     /\ shutPc = "done" =>
          /\ \A t \in suspended : pc'[t] # pc[t] => sdkPool' = sdkPool
          /\ cleanPc' # cleanPc => Len(sdkPool') <= Len(sdkPool)]_vars

(***************************************************************************)
(* Termination of the encoder                                              *)
(***************************************************************************)
\* C36: every toDER call ends: it returns an encoding or throws
\* DEREncodingFailed, whatever rHex and sHex are.
C36_EncoderTerminates ==
  derCall.calls > 0 =>
    \/ derCall.result.how = "returns"
    \/ /\ derCall.result.how = "throws"
       /\ derCall.result.error = SigningError("DEREncodingFailed")

(***************************************************************************)
(* Properties of signAndSubmitTx                                           *)
(***************************************************************************)
\* sequence a is a prefix of sequence b
IsPrefix(a, b) == Len(a) <= Len(b) /\ \A i \in 1..Len(a) : a[i] = b[i]

\* C35: signAndSubmitTx calls autofill, signAsync and submitAndWait in this
\* order and each at most once; submitAndWait is called only after signAsync
\* has resolved, with the tx_blob it resolved with, which is an encoded
\* signed transaction and not a placeholder; when autofill or signAsync has
\* failed, submitAndWait has not been called.
C35_SubmitsOnlySignedBlob ==
  \A o \in Ops :
    /\ IsPrefix(op[o].calls, <<"autofill", "signAsync", "submitAndWait">>)
    /\ Len(op[o].calls) = 3 =>
         /\ op[o].signedTx # NoSignedTransaction
         /\ op[o].submitted = op[o].signedTx.tx_blob
         /\ op[o].submitted \notin Placeholders
         /\ HasTxnSignature(Decode(op[o].submitted, "faithful"))
    /\ Len(op[o].calls) < 3 => op[o].submitted = NoToken
    /\ op[o].error.code \in {"AutofillFailed", "SignFailed", "UnknownError"} =>
         Len(op[o].calls) < 3
    /\ op[o].error.code = "AutofillFailed" => op[o].calls = <<"autofill">>
    /\ op[o].error.code = "SignFailed" => op[o].calls = <<"autofill", "signAsync">>

\* a method has returned after its transaction was submitted, while the
\* other caller's signing has failed
C35_Witness ==
  /\ op["o1"].pc = "done" /\ op["o1"].how = "returns"
  /\ op["o1"].calls = <<"autofill", "signAsync", "submitAndWait">>
  /\ op["o2"].pc = "done" /\ op["o2"].error = SigningError("SignFailed")

(***************************************************************************)
(* Properties of the connection of a shared sdk                            *)
(***************************************************************************)
\* caller o is between the end of its connect() and the end of its
\* submitAndWait
UsesConnection(o) ==
  op[o].pc \in {"params", "autofilling", "signing", "submitting"}

\* the method of caller o calls client.disconnect() in this step
Disconnects(o) ==
  op[o].pc # "disconnecting" /\ op'[o].pc = "disconnecting" /\ ~connected'

\* C38: no method run on the sdk disconnects its client while another caller
\* of the same sdk is using the connection.
C38_NoDisconnectUnderSharer ==
  [][\A o \in Ops : Disconnects(o) =>
       \A other \in Ops \ {o} : ~UsesConnection(other)]_vars

=============================================================================
